---- MODULE Spec2Model ----
(***************************************************************************)
(* The provisioning / teardown workflow of the serverless inventory        *)
(* pipeline: infra/deploy.py, infra/destroy.py and infra/validate.py run   *)
(* one at a time by a single operator against the cloud provider and the   *)
(* deployment record file infra/deployment.json.                           *)
(*                                                                         *)
(* Names are token sequences: f"inventory-uploads-{SUFFIX}" is             *)
(* <<"inventory-uploads", SUFFIX>>, and `x in arn` is IsInfix on tokens.   *)
(* A provider call may fail with an error the state does not determine     *)
(* (access denied, throttling, a waiter that gives up): the actions draw   *)
(* such a failure with \E, at most MaxFaults times in a behaviour.         *)
(***************************************************************************)
EXTENDS Integers, Sequences, FiniteSets, TLC

\* ------------------------------------------------------------------ bounds
MaxRuns == 3      \* tool runs (deploy / destroy / validate) in one behaviour
MaxFaults == 1    \* failures drawn from the environment in one behaviour

\* ------------------------------------------------------------------- state
VARIABLES
    recFile,      \* infra/deployment.json: {} when absent, {r} when it holds r
    labRole,      \* the environment provides the role LabRole (AWS Academy)
    buckets,      \* names of the buckets that exist
    bucketNotif,  \* functions in the uploads bucket's notification configuration
    tableUp,      \* the table Inventory exists (its stream enabled at creation)
    roles,        \* names of the customer-created roles that exist
    attached,     \* roles with the managed basic-execution policy attached
    topics,       \* names of the topics that exist
    functions,    \* names of the functions that exist
    mappings,     \* functions with an event-source mapping on the table's stream
    apis,         \* the HTTP APIs that exist: records [id, name]
    nextApi,      \* the next ApiId the provider hands out
    prog,         \* the tool that runs: "idle", "deploy", "destroy", "validate"
    pc,           \* its position
    loc,          \* its module globals and locals
    faults,       \* failures drawn so far
    hist,         \* the finished runs, oldest first
    data          \* the data plane, where a specification below studies it: the
                  \* entries of a bucket, the items of the table, the messages
                  \* published to the topic

vars == <<recFile, labRole, buckets, bucketNotif, tableUp, roles, attached,
          topics, functions, mappings, apis, nextApi, prog, pc, loc, faults, hist,
          data>>

cloud == <<labRole, buckets, bucketNotif, tableUp, roles, attached, topics,
           functions, mappings, apis>>

\* ------------------------------------------------------------ resource names
DefaultSuffix == "inventory-main"

\* mutant of LoadSuffix: a re-run does not reuse the persisted suffix
LoadSuffix_NotReused(file) ==
    IF file # {} THEN "regenerated" ELSE DefaultSuffix

\* deploy.py:27-38: the suffix of the record when there is one, else the fixed token
LoadSuffix(file) ==
    IF file # {} THEN (CHOOSE r \in file : TRUE).suffix ELSE DefaultSuffix

\* mutant of BucketUploads: the name carries a token drawn anew in every run
RunToken == <<"uuid-0", "uuid-1", "uuid-2", "uuid-3", "uuid-4", "uuid-5">>
BucketUploads_PerRun(suffix) == <<"inventory-uploads", RunToken[Len(hist) + 1]>>

\* mutant of BucketWeb: the web bucket is named by the fixed token
BucketWeb_Fixed(suffix) == <<"inventory-web", DefaultSuffix>>

BucketUploads(suffix) == <<"inventory-uploads", suffix>>
BucketWeb(suffix) == <<"inventory-web", suffix>>
TABLE_NAME == "Inventory"
LAMBDA_LOAD_NAME == "load_inventory"
LAMBDA_API_NAME == "get_inventory_api"
LAMBDA_NOTIFY_NAME == "notify_low_stock"
IamRoleLambda(suffix) == <<"lambda-inventory-role", suffix>>
LabRoleName == <<"LabRole">>
SNS_TOPIC_NAME == <<"low-stock", "inventory-main">>
ForeignTopic == <<"low-stock", "other-team">>
ApiName(suffix) == <<"inventory-api", suffix>>

TopicArn(name) == <<"arn:aws:sns">> \o name
RoleArn(name) == <<"arn:aws:iam">> \o name
ApiEndpoint(id) == <<"https", id, "execute-api", "prod">>
WebUrl(suffix) == <<"http">> \o BucketWeb(suffix) \o <<"s3-website">>

\* Python's `needle in hay` on strings, on token sequences
IsInfix(needle, hay) ==
    \E i \in 0..(Len(hay) - Len(needle)) :
        \A j \in 1..Len(needle) : hay[i + j] = needle[j]

\* ------------------------------------------------------------------ helpers
NoLocals == [suffix |-> DefaultSuffix, role_arn |-> <<>>, topic_arn |-> <<>>,
             api_id |-> 0, config |-> {}, met |-> {}, steps |-> <<>>,
             calls |-> <<>>, answer |-> <<>>, existing_config |-> {}]

\* the three tools never read the data plane
NoData == [entries |-> {}, items |-> {}, published |-> <<>>, subscriptions |-> {}]

CanFail == faults < MaxFaults

\* a finished run: the tool, how it ended, where, the steps that had returned,
\* the failures it met, the file it left, the record deploy loaded at its start
Finished(tool, outcome, at, met) ==
    [tool |-> tool, outcome |-> outcome, at |-> at, steps |-> loc.steps,
     met |-> met, rec |-> recFile', found |-> loc.existing_config]

\* the record file as it was when the current run started
RecAtStart == IF hist = <<>> THEN {} ELSE hist[Len(hist)].rec

Init ==
    /\ recFile = {}
    /\ labRole \in BOOLEAN
    /\ buckets = {}
    /\ bucketNotif = {}
    /\ tableUp = FALSE
    /\ roles = {}
    /\ attached = {}
    /\ topics \in {{}, {ForeignTopic}}
    /\ functions = {}
    /\ mappings = {}
    /\ apis = {}
    /\ nextApi = 1
    /\ prog = "idle"
    /\ pc = "idle"
    /\ loc = NoLocals
    /\ faults = 0
    /\ hist = <<>>
    /\ data = NoData


\* ------------------------------------------------------------ running a tool
Met(l, kind) == [l EXCEPT !.met = @ \cup {kind}]

Drawn(f) == faults' = faults + (IF f = "none" THEN 0 ELSE 1)

\* the delete calls the run has issued so far, oldest first: <<step, call>>
Calls(l, cs) == [l EXCEPT !.calls = @ \o cs]

\* the run goes on to its next step
Goes(next, l) ==
    /\ pc' = next
    /\ loc' = [l EXCEPT !.steps = Append(@, pc)]
    /\ UNCHANGED <<prog, hist, data>>

\* the run is over: the process exits
Ends(tool, outcome, at, met) ==
    /\ prog' = "idle"
    /\ pc' = "idle"
    /\ loc' = NoLocals
    /\ hist' = Append(hist, Finished(tool, outcome, at, met))
    /\ UNCHANGED data

\* mutant of DeployAborts: the handler also removes the record file
DeployAborts_RemovesRecord(at, met) ==
    /\ recFile' = {}
    /\ Ends("deploy", "abort", at, met)

\* deploy.py:721-725: main's handler prints the error and exits with code 1
DeployAborts(at, met) ==
    /\ UNCHANGED recFile
    /\ Ends("deploy", "abort", at, met)

\* a step of main's try block returned: the record file is not touched
DeployGoes(next, l) ==
    /\ UNCHANGED recFile
    /\ Goes(next, l)

\* deploy.py:21-65: the module's globals are set when the process starts
StartDeploy ==
    /\ prog = "idle"
    /\ Len(hist) < MaxRuns
    /\ prog' = "deploy"
    /\ pc' = "buckets"
    /\ loc' = [NoLocals EXCEPT !.suffix = LoadSuffix(recFile),
                               !.existing_config = recFile]
    /\ UNCHANGED <<recFile, cloud, nextApi, faults, hist, data>>

\* deploy.py:68-106 create_s3_buckets: head_bucket, create_bucket when absent
\* (any error of create_bucket other than BucketAlreadyOwnedByYou is raised)
DeployBuckets ==
    /\ prog = "deploy" /\ pc = "buckets"
    /\ \E f \in {"none", "uploads", "web"} :
        LET up == BucketUploads(loc.suffix)
            web == BucketWeb(loc.suffix)
            failUp == f = "uploads" /\ up \notin buckets
            failWeb == f = "web" /\ web \notin buckets
        IN  /\ (f # "none") => (CanFail /\ (failUp \/ failWeb))
            /\ Drawn(f)
            /\ buckets' = IF failUp THEN buckets
                          ELSE IF failWeb THEN buckets \cup {up}
                          ELSE buckets \cup {up, web}
            /\ IF f # "none"
               THEN DeployAborts("buckets", loc.met \cup {"hard"})
               ELSE DeployGoes("table", loc)
    /\ UNCHANGED <<labRole, bucketNotif, tableUp, roles, attached, topics,
                   functions, mappings, apis, nextApi>>

\* deploy.py:109-162 create_dynamodb_table: create_table, wait; on
\* ResourceInUseException describe the existing table. The table_exists waiter
\* gives up after its last attempt with a WaiterError, which is no ClientError
\* and reaches main's handler
DeployTable ==
    /\ prog = "deploy" /\ pc = "table"
    /\ \E f \in {"none", "hard", "waiter"} :
        /\ (f # "none") => CanFail
        /\ (f = "waiter") => ~tableUp
        /\ Drawn(f)
        /\ tableUp' = IF f = "hard" THEN tableUp ELSE TRUE
        /\ IF f # "none"
           THEN DeployAborts("table",
                    loc.met \cup {IF f = "waiter" THEN "waiter" ELSE "hard"})
           ELSE DeployGoes("role", loc)
    /\ UNCHANGED <<labRole, buckets, bucketNotif, roles, attached, topics,
                   functions, mappings, apis, nextApi>>

\* deploy.py:165-210 create_iam_role: LabRole when get_role answers, else
\* create_role + attach_role_policy; every ClientError of the fallback is raised
DeployRole ==
    /\ prog = "deploy" /\ pc = "role"
    /\ \E f \in {"none", "get_role", "create", "attach"} :
        LET custom == IamRoleLambda(loc.suffix)
            fallback == ~labRole \/ f = "get_role"
            exists == fallback /\ custom \in roles
        IN  /\ (f # "none") => CanFail
            /\ (f = "get_role") => labRole
            /\ (f \in {"create", "attach"}) => (~labRole /\ custom \notin roles)
            /\ Drawn(f)
            /\ roles' = IF fallback /\ f # "create" THEN roles \cup {custom} ELSE roles
            /\ attached' = IF fallback /\ ~exists /\ f \notin {"create", "attach"}
                           THEN attached \cup {custom} ELSE attached
            /\ IF exists
               THEN DeployAborts("role", loc.met \cup {"exists"}
                                   \cup (IF f = "none" THEN {} ELSE {"lookup"}))
               ELSE IF f \in {"create", "attach"}
               THEN DeployAborts("role", loc.met \cup {"hard"})
               ELSE DeployGoes("topic",
                         [(IF f = "none" THEN loc ELSE Met(loc, "lookup"))
                            EXCEPT !.role_arn =
                              IF fallback THEN RoleArn(custom) ELSE RoleArn(LabRoleName)])
    /\ UNCHANGED <<labRole, buckets, bucketNotif, tableUp, topics,
                   functions, mappings, apis, nextApi>>

\* deploy.py:300-330 create_sns_topic: the first listed topic whose ARN contains
\* the fixed name, else create_topic (which the provider makes idempotent by name)
DeployTopic ==
    /\ prog = "deploy" /\ pc = "topic"
    /\ \E f \in {"none", "list", "create"} :
        LET matches == {t \in topics : IsInfix(SNS_TOPIC_NAME, TopicArn(t))}
            found == f = "none" /\ matches # {}
        IN  /\ (f # "none") => CanFail
            /\ (f = "create") => (matches = {})
            /\ Drawn(f)
            /\ topics' = IF found \/ f = "create" THEN topics
                         ELSE topics \cup {SNS_TOPIC_NAME}
            /\ IF f = "create"
               THEN DeployAborts("topic", loc.met \cup {"hard"})
               ELSE \E t \in (IF found THEN matches ELSE {SNS_TOPIC_NAME}) :
                      DeployGoes("lambda_load",
                           [(IF f = "list" THEN Met(loc, "lookup") ELSE loc)
                              EXCEPT !.topic_arn = TopicArn(t)])
    /\ UNCHANGED <<labRole, buckets, bucketNotif, tableUp, roles, attached,
                   functions, mappings, apis, nextApi>>

\* deploy.py:226-297 create_lambda: create_function; on ResourceConflictException
\* poll, update code and configuration, tolerating a conflict of the update
CreateLambda(name, at, next) ==
    /\ prog = "deploy" /\ pc = at
    /\ \E f \in {"none", "hard", "conflict"} :
        /\ (f # "none") => CanFail
        /\ (f = "conflict") => (name \in functions)
        /\ Drawn(f)
        /\ functions' = IF f = "hard" THEN functions ELSE functions \cup {name}
        /\ IF f = "hard"
           THEN DeployAborts(at, loc.met \cup {"hard"})
           ELSE DeployGoes(next, IF f = "conflict" THEN Met(loc, "conflict") ELSE loc)
    /\ UNCHANGED <<labRole, buckets, bucketNotif, tableUp, roles, attached,
                   topics, mappings, apis, nextApi>>

\* mutant of DeployLambdaApi: main goes on to the triggers before the third function
DeployLambdaApi_SkipsNotify == CreateLambda(LAMBDA_API_NAME, "lambda_api", "s3_trigger")

DeployLambdaLoad == CreateLambda(LAMBDA_LOAD_NAME, "lambda_load", "lambda_api")
DeployLambdaApi == CreateLambda(LAMBDA_API_NAME, "lambda_api", "lambda_notify")
DeployLambdaNotify == CreateLambda(LAMBDA_NOTIFY_NAME, "lambda_notify", "s3_trigger")

\* deploy.py:413-447 add_s3_trigger_to_lambda: add_permission (a conflict is
\* tolerated, any other error raised), then put_bucket_notification_configuration,
\* whose ClientError is printed as a warning
DeployS3Trigger ==
    /\ prog = "deploy" /\ pc = "s3_trigger"
    /\ \E f \in {"none", "permission", "notification"} :
        /\ (f # "none") => CanFail
        /\ Drawn(f)
        /\ bucketNotif' = IF f = "none" THEN {LAMBDA_LOAD_NAME} ELSE bucketNotif
        /\ IF f = "permission"
           THEN DeployAborts("s3_trigger", loc.met \cup {"hard"})
           ELSE DeployGoes("stream_trigger",
                     IF f = "notification" THEN Met(loc, "hard") ELSE loc)
    /\ UNCHANGED <<labRole, buckets, tableUp, roles, attached, topics,
                   functions, mappings, apis, nextApi>>

\* deploy.py:450-489 add_stream_trigger_to_lambda: describe_table, delete the
\* mappings listed for the stream and the function, create_event_source_mapping,
\* whose ClientError (a conflict or any other) is printed
DeployStreamTrigger ==
    /\ prog = "deploy" /\ pc = "stream_trigger"
    /\ \E f \in {"none", "describe", "create"} :
        /\ (f # "none") => CanFail
        /\ Drawn(f)
        /\ mappings' = CASE f = "none" -> mappings \cup {LAMBDA_NOTIFY_NAME}
                         [] f = "describe" -> mappings
                         [] f = "create" -> mappings \ {LAMBDA_NOTIFY_NAME}
        /\ IF f = "describe"
           THEN DeployAborts("stream_trigger", loc.met \cup {"hard"})
           ELSE DeployGoes("api", IF f = "create" THEN Met(loc, "hard") ELSE loc)
    /\ UNCHANGED <<labRole, buckets, bucketNotif, tableUp, roles, attached,
                   topics, functions, apis, nextApi>>

\* deploy.py:333-410 create_api_gateway: delete every API of the same name (any
\* error of the listing or of a delete is swallowed), create_api, integration,
\* routes, permission, stage
DeployApi ==
    /\ prog = "deploy" /\ pc = "api"
    /\ \E f \in {"none", "list", "create", "route"} :
        LET same == {a \in apis : a.name = ApiName(loc.suffix)}
            kept == IF f = "list" THEN apis ELSE apis \ same
            new == [id |-> nextApi, name |-> ApiName(loc.suffix)]
        IN  /\ (f # "none") => CanFail
            /\ Drawn(f)
            /\ apis' = IF f = "create" THEN kept ELSE kept \cup {new}
            /\ nextApi' = IF f = "create" THEN nextApi ELSE nextApi + 1
            /\ IF f \in {"create", "route"}
               THEN DeployAborts("api", loc.met \cup {"hard"})
               ELSE DeployGoes("web", [(IF f = "list" THEN Met(loc, "lookup") ELSE loc)
                                   EXCEPT !.api_id = nextApi])
    /\ UNCHANGED <<labRole, buckets, bucketNotif, tableUp, roles, attached,
                   topics, functions, mappings>>

\* deploy.py:492-606 upload_web_content: put_object and put_bucket_website raise;
\* a refused public-access change is printed; put_bucket_policy raises unless the
\* error names AccessDenied or BlockPublicPolicy
DeployWeb ==
    /\ prog = "deploy" /\ pc = "web"
    /\ \E f \in {"none", "upload", "denied", "policy"} :
        /\ (f # "none") => CanFail
        /\ Drawn(f)
        /\ IF f = "upload"
           THEN DeployAborts("web", loc.met \cup {"hard"})
           ELSE IF f = "policy"
           THEN DeployAborts("web", loc.met \cup {"public"})
           ELSE DeployGoes("write", IF f = "denied" THEN Met(loc, "public") ELSE loc)
    /\ UNCHANGED <<cloud, nextApi>>

\* mutant of Config: the record is given the fixed suffix, whatever was loaded
Config_FixedSuffix(l, time) ==
    [deployment_time |-> time,
     suffix |-> DefaultSuffix,
     bucket_uploads |-> BucketUploads(l.suffix),
     bucket_web |-> BucketWeb(l.suffix),
     table_name |-> TABLE_NAME,
     lambda_load |-> LAMBDA_LOAD_NAME,
     lambda_api |-> LAMBDA_API_NAME,
     lambda_notify |-> LAMBDA_NOTIFY_NAME,
     api_id |-> l.api_id,
     api_endpoint |-> ApiEndpoint(l.api_id),
     web_url |-> WebUrl(l.suffix),
     sns_topic_arn |-> l.topic_arn,
     iam_role |-> IamRoleLambda(l.suffix)]

\* deploy.py:682-697: the record main builds
Config(l, time) ==
    [deployment_time |-> time,
     suffix |-> l.suffix,
     bucket_uploads |-> BucketUploads(l.suffix),
     bucket_web |-> BucketWeb(l.suffix),
     table_name |-> TABLE_NAME,
     lambda_load |-> LAMBDA_LOAD_NAME,
     lambda_api |-> LAMBDA_API_NAME,
     lambda_notify |-> LAMBDA_NOTIFY_NAME,
     api_id |-> l.api_id,
     api_endpoint |-> ApiEndpoint(l.api_id),
     web_url |-> WebUrl(l.suffix),
     sns_topic_arn |-> l.topic_arn,
     iam_role |-> IamRoleLambda(l.suffix)]

\* deploy.py:699-719: main writes the record and returns
DeployWrite ==
    /\ prog = "deploy" /\ pc = "write"
    /\ recFile' = {Config(loc, Len(hist) + 1)}
    /\ Ends("deploy", "ok", "write", loc.met)
    /\ UNCHANGED <<cloud, nextApi, faults>>


\* ------------------------------------------------------------------ destroy
Cfg == CHOOSE r \in loc.config : TRUE

\* destroy.py:272-276: main's handler prints the error and exits with code 1
DestroyAborts(at, met) ==
    /\ UNCHANGED recFile
    /\ Ends("destroy", "abort", at, met)

DestroyGoes(next, l) ==
    /\ UNCHANGED recFile
    /\ Goes(next, l)

\* destroy.py:26-44: without a record the process exits with code 1 at once,
\* else the identifiers to delete are read from it
StartDestroy ==
    /\ prog = "idle"
    /\ Len(hist) < MaxRuns
    /\ IF recFile = {}
       THEN /\ UNCHANGED recFile
            /\ Ends("destroy", "norecord", "load", {})
       ELSE /\ prog' = "destroy"
            /\ pc' = "confirm"
            /\ loc' = [NoLocals EXCEPT !.config = recFile]
            /\ UNCHANGED <<recFile, hist, data>>
    /\ UNCHANGED <<cloud, nextApi, faults>>

\* what the operator may type at the prompt, character by character
Answers ==
    {<<"s", "í">>, <<" ", "S", "Í", "\n">>, <<"s", "i">>, <<"s", " ", "í">>, <<>>}

\* str.strip(): the whitespace at both ends is dropped
IsSpace(c) == c \in {" ", "\t", "\n"}

RECURSIVE LStrip(_)
LStrip(s) == IF s # <<>> /\ IsSpace(Head(s)) THEN LStrip(Tail(s)) ELSE s

RECURSIVE RStrip(_)
RStrip(s) ==
    IF s # <<>> /\ IsSpace(s[Len(s)]) THEN RStrip(SubSeq(s, 1, Len(s) - 1)) ELSE s

Strip(s) == RStrip(LStrip(s))

\* str.lower(), on the characters the answers are made of
LowerChar(c) ==
    CASE c = "S" -> "s"
      [] c = "Í" -> "í"
      [] OTHER -> c

Lower(s) == [i \in 1..Len(s) |-> LowerChar(s[i])]

\* destroy.py:231: the word the normalised answer is compared with
ConfirmWord == <<"s", "í">>

\* the run ends at the prompt: main returns, the process exits with code 0
\* (the answer stays on the terminal until the next tool is started)
DestroyCancels(typed) ==
    /\ UNCHANGED recFile
    /\ prog' = "idle"
    /\ pc' = "idle"
    /\ loc' = [NoLocals EXCEPT !.answer = typed]
    /\ hist' = Append(hist, Finished("destroy", "cancel", "confirm", loc.met))
    /\ UNCHANGED data

\* mutant of DestroyConfirm: the answer is compared as typed, by its first letter
DestroyConfirm_FirstLetter ==
    /\ prog = "destroy" /\ pc = "confirm"
    /\ \E typed \in Answers :
        IF typed = <<>> \/ LowerChar(Head(typed)) # "s"
        THEN DestroyCancels(typed)
        ELSE DestroyGoes("unlink", [loc EXCEPT !.answer = typed])
    /\ UNCHANGED <<cloud, nextApi, faults>>

\* destroy.py:229-233: response = input(...).strip().lower(); anything but the
\* confirmation word cancels
DestroyConfirm ==
    /\ prog = "destroy" /\ pc = "confirm"
    /\ \E typed \in Answers :
        LET response == Lower(Strip(typed))
        IN  IF response # ConfirmWord
            THEN DestroyCancels(typed)
            ELSE DestroyGoes("unlink", [loc EXCEPT !.answer = typed])
    /\ UNCHANGED <<cloud, nextApi, faults>>

\* destroy.py:236-242: config_file.unlink() inside try / except: pass
\* (the answer was compared and is not read again: it is dropped here)
DestroyUnlink ==
    /\ prog = "destroy" /\ pc = "unlink"
    /\ \E f \in {"none", "unlink"} :
        /\ (f # "none") => CanFail
        /\ Drawn(f)
        /\ recFile' = IF f = "none" THEN {} ELSE recFile
        /\ Goes("x_lambda_load",
                [(IF f = "none" THEN loc ELSE Met(loc, "unlink"))
                    EXCEPT !.answer = <<>>])
    /\ UNCHANGED <<cloud, nextApi>>

\* mutant of LambdaCalls: the function is deleted before its mappings
LambdaCalls_FunctionFirst(at, listed) ==
    <<<<at, "delete_function">>>>
        \o (IF listed THEN <<<<at, "delete_event_source_mapping">>>> ELSE <<>>)

\* the calls of delete_lambda: a delete_event_source_mapping for each mapping
\* listed, then delete_function
LambdaCalls(at, listed) ==
    (IF listed THEN <<<<at, "delete_event_source_mapping">>>> ELSE <<>>)
        \o <<<<at, "delete_function">>>>

\* destroy.py:116-139 delete_lambda: the function's event-source mappings
\* (errors swallowed), then delete_function; a ClientError is printed
DeleteLambda(name, at, next) ==
    /\ prog = "destroy" /\ pc = at
    /\ \E f \in {"none", "list", "hard"} :
        /\ (f # "none") => CanFail
        /\ Drawn(f)
        /\ mappings' = IF f = "list" THEN mappings ELSE mappings \ {name}
        /\ functions' = IF f = "hard" THEN functions ELSE functions \ {name}
        /\ DestroyGoes(next,
              Calls(IF f = "none" THEN loc ELSE Met(loc, "hard"),
                    LambdaCalls(at, name \in mappings /\ f # "list")))
    /\ UNCHANGED <<labRole, buckets, bucketNotif, tableUp, roles, attached,
                   topics, apis, nextApi>>

DestroyLambdaLoad == DeleteLambda(Cfg.lambda_load, "x_lambda_load", "x_lambda_api")
DestroyLambdaApi == DeleteLambda(Cfg.lambda_api, "x_lambda_api", "x_lambda_notify")
DestroyLambdaNotify == DeleteLambda(Cfg.lambda_notify, "x_lambda_notify", "x_api")

\* destroy.py:141-151 delete_api_gateway
DestroyApi ==
    /\ prog = "destroy" /\ pc = "x_api"
    /\ \E f \in {"none", "hard"} :
        /\ (f # "none") => CanFail
        /\ Drawn(f)
        /\ apis' = IF f = "hard" THEN apis ELSE {a \in apis : a.id # Cfg.api_id}
        /\ DestroyGoes("x_table",
              Calls(IF f = "none" THEN loc ELSE Met(loc, "hard"),
                    <<<<"x_api", "delete_api">>>>))
    /\ UNCHANGED <<labRole, buckets, bucketNotif, tableUp, roles, attached,
                   topics, functions, mappings, nextApi>>

\* destroy.py:153-168 delete_dynamodb_table: delete_table, then the
\* table_not_exists waiter; only ClientError is caught, and the waiter raises
\* WaiterError when it gives up
DestroyTable ==
    /\ prog = "destroy" /\ pc = "x_table"
    /\ \E f \in {"none", "hard", "waiter"} :
        /\ (f # "none") => CanFail
        /\ (f = "waiter") => tableUp
        /\ Drawn(f)
        /\ tableUp' = IF f = "hard" THEN tableUp ELSE FALSE
        /\ IF f = "waiter"
           THEN DestroyAborts("x_table", loc.met \cup {"waiter"})
           ELSE DestroyGoes("x_empty_uploads",
                  Calls(IF f = "none" THEN loc ELSE Met(loc, "hard"),
                        <<<<"x_table", "delete_table">>>>
                        \o (IF tableUp /\ f = "none"
                            THEN <<<<"x_table", "wait_table_not_exists">>>>
                            ELSE <<>>)))
    /\ UNCHANGED <<labRole, buckets, bucketNotif, roles, attached, topics,
                   functions, mappings, apis, nextApi>>

\* destroy.py:46-102 empty_s3_bucket: the versions and delete markers of the
\* bucket are listed, then deleted by the loop of batched delete_objects calls
\* (one log entry stands for the loop; its batches are the subject of
\* EmptySpec below); every error is printed
EmptyBucket(name, at, next) ==
    /\ prog = "destroy" /\ pc = at
    /\ DestroyGoes(next,
          Calls(loc, <<<<at, "list_object_versions">>>>
                     \o (IF name \in buckets
                         THEN <<<<at, "delete_objects">>>> ELSE <<>>)))
    /\ UNCHANGED <<cloud, nextApi, faults>>

\* destroy.py:104-114 delete_s3_bucket
DeleteBucket(name, at, next) ==
    /\ prog = "destroy" /\ pc = at
    /\ \E f \in {"none", "hard"} :
        /\ (f # "none") => CanFail
        /\ Drawn(f)
        /\ buckets' = IF f = "hard" THEN buckets ELSE buckets \ {name}
        /\ bucketNotif' = IF f = "none" /\ name = Cfg.bucket_uploads
                          THEN {} ELSE bucketNotif
        /\ DestroyGoes(next,
              Calls(IF f = "none" THEN loc ELSE Met(loc, "hard"),
                    <<<<at, "delete_bucket">>>>))
    /\ UNCHANGED <<labRole, tableUp, roles, attached, topics, functions,
                   mappings, apis, nextApi>>

DestroyEmptyUploads == EmptyBucket(Cfg.bucket_uploads, "x_empty_uploads", "x_bucket_uploads")
DestroyBucketUploads == DeleteBucket(Cfg.bucket_uploads, "x_bucket_uploads", "x_empty_web")
DestroyEmptyWeb == EmptyBucket(Cfg.bucket_web, "x_empty_web", "x_bucket_web")
DestroyBucketWeb == DeleteBucket(Cfg.bucket_web, "x_bucket_web", "x_role")

\* destroy.py:170-192 delete_iam_role: the inline policies, then delete_role,
\* which the provider refuses (DeleteConflict) while a managed policy is attached
DestroyRole ==
    /\ prog = "destroy" /\ pc = "x_role"
    /\ \E f \in {"none", "hard"}, inline \in BOOLEAN :
        LET refused == Cfg.iam_role \in attached
        IN  /\ (f # "none") => CanFail
            /\ inline => Cfg.iam_role \in roles
            /\ Drawn(f)
            /\ roles' = IF f = "hard" \/ refused THEN roles ELSE roles \ {Cfg.iam_role}
            /\ DestroyGoes("x_topics",
                  Calls(IF f = "hard" THEN Met(loc, "hard")
                        ELSE IF refused /\ Cfg.iam_role \in roles
                        THEN Met(loc, "delete_conflict") ELSE loc,
                        (IF inline THEN <<<<"x_role", "delete_role_policy">>>> ELSE <<>>)
                        \o <<<<"x_role", "delete_role">>>>))
    /\ UNCHANGED <<labRole, buckets, bucketNotif, tableUp, attached, topics,
                   functions, mappings, apis, nextApi>>

\* destroy.py:194-214 delete_all_low_stock_topics, then destroy.py:267-270:
\* list_topics is called outside any try; each topic whose ARN contains
\* 'low-stock' is deleted, a ClientError on one topic is printed
DestroyTopics ==
    /\ prog = "destroy" /\ pc = "x_topics"
    /\ \E f \in {"none", "list", "delete"} :
        LET matching == {t \in topics : IsInfix(<<"low-stock">>, TopicArn(t))}
        IN  /\ (f # "none") => CanFail
            /\ (f = "delete") => (matching # {})
            /\ Drawn(f)
            /\ UNCHANGED recFile
            /\ IF f = "list"
               THEN /\ topics' = topics
                    /\ Ends("destroy", "abort", "x_topics", loc.met \cup {"hard"})
               ELSE \E kept \in SUBSET matching :
                      /\ (f = "none") => (kept = {})
                      /\ (f = "delete") => (Cardinality(kept) = 1)
                      /\ topics' = (topics \ matching) \cup kept
                      /\ Ends("destroy", "ok", "x_topics",
                              IF f = "none" THEN loc.met ELSE loc.met \cup {"hard"})
    /\ UNCHANGED <<labRole, buckets, bucketNotif, tableUp, roles, attached,
                   functions, mappings, apis, nextApi>>

\* the operator interrupts the process between two calls (Ctrl-C is not an
\* Exception: neither main's handler nor any cleanup runs)
Interrupt ==
    /\ prog \in {"deploy", "destroy"}
    /\ CanFail
    /\ faults' = faults + 1
    /\ UNCHANGED recFile
    /\ Ends(prog, "interrupt", pc, loc.met)
    /\ UNCHANGED <<cloud, nextApi>>

\* ----------------------------------------------------------------- validate
\* mutant of FileAfterRead: the file is opened for writing, which truncates it
FileAfterRead_Truncated(file) == {}

\* validate.py:22-23, subscribe_sns.py:25-26: open(config_file, "r") and
\* json.load leave the file as it is
FileAfterRead(file) == file

\* validate.py:25-160: what each check reads of the resource the record names
Present(check, r) ==
    CASE check = "bucket_uploads" -> r.bucket_uploads \in buckets
      [] check = "bucket_web" -> r.bucket_web \in buckets
      [] check = "table" -> tableUp
      [] check = "lambda_load" -> r.lambda_load \in functions
      [] check = "lambda_api" -> r.lambda_api \in functions
      [] check = "lambda_notify" -> r.lambda_notify \in functions
      [] check = "api" -> r.api_id \in {a.id : a \in apis}
      [] check = "sns" -> r.sns_topic_arn \in {TopicArn(t) : t \in topics}
      [] check = "iam" -> r.iam_role \in roles

Checks ==
    {"bucket_uploads", "bucket_web", "table", "lambda_load", "lambda_api",
     "lambda_notify", "api", "sns", "iam"}

\* the resources validate prints as missing (a ClientError of the read call)
Missing(r) == {c \in Checks : ~Present(c, r)}

\* validate.py:162-188 test_api_endpoint: GET {api_endpoint}/items answers when
\* the API, its function and the table are there
ProbeAnswers(r) ==
    /\ \E a \in apis : ApiEndpoint(a.id) = r.api_endpoint
    /\ LAMBDA_API_NAME \in functions
    /\ tableUp

\* validate.py:190-197: sys.exit(1) without a record; validate.py:25-160: the
\* checks catch ClientError only, so any other exception of a read call (the
\* provider cannot be reached, no credentials) leaves main with a traceback
ValidateOutcome(file, f) ==
    IF file = {} THEN "norecord"
    ELSE IF f = "transport" THEN "abort"
    ELSE "ok"

\* validate.py:190-223 main: load_config, the six checks, the probe; every call
\* is a read (head_bucket, get_bucket_notification_configuration,
\* describe_table, get_function, get_api, get_routes, get_topic_attributes,
\* list_subscriptions_by_topic, get_role, list_role_policies, HTTP GET)
Validate ==
    /\ prog = "idle"
    /\ Len(hist) < MaxRuns
    /\ \E f \in {"none", "transport", "probe"} :
        /\ (f # "none") => (CanFail /\ recFile # {})
        /\ Drawn(f)
        /\ recFile' = FileAfterRead(recFile)
        /\ Ends("validate", ValidateOutcome(recFile, f), "main",
                IF recFile = {} \/ f = "transport" THEN {}
                ELSE LET r == CHOOSE r \in recFile : TRUE
                     IN  Missing(r) \cup (IF f = "probe" \/ ~ProbeAnswers(r)
                                          THEN {"probe"} ELSE {}))
    /\ UNCHANGED <<cloud, nextApi>>

\* what the operator may type as an e-mail address, character by character
Emails ==
    {<<"a", "@", "b">>, <<" ", "a", "@", "b", "\n">>, <<"a", "b">>, <<" ">>, <<>>,
     <<"@">>}

\* Python's `c in s` for a character
Contains(s, c) == \E i \in 1..Len(s) : s[i] = c

\* subscribe_sns.py:18-61: exit 1 without a record, on an address that is empty
\* or holds no '@', and on a ClientError of subscribe (the topic is gone, the
\* provider rejects the address); else the topic gets a pending subscription
Subscribe ==
    /\ prog = "idle"
    /\ Len(hist) < MaxRuns
    /\ \E typed \in Emails, f \in {"none", "hard"} :
        LET email == Strip(typed)
            config == CHOOSE r \in recFile : TRUE
            invalid == email = <<>> \/ ~Contains(email, "@")
            refused == \/ config.sns_topic_arn \notin {TopicArn(t) : t \in topics}
                       \/ email[1] = "@" \/ email[Len(email)] = "@"
            outcome == IF recFile = {} THEN "norecord"
                       ELSE IF invalid THEN "invalid"
                       ELSE IF f = "hard" \/ refused THEN "error"
                       ELSE "ok"
        IN  /\ (f # "none") => (CanFail /\ recFile # {} /\ ~invalid)
            /\ (recFile = {}) => (typed = <<>>)
            /\ Drawn(f)
            /\ recFile' = FileAfterRead(recFile)
            /\ prog' = "idle"
            /\ pc' = "idle"
            /\ loc' = NoLocals
            /\ hist' = Append(hist, Finished("subscribe", outcome, "main", {}))
            /\ data' = IF outcome = "ok"
                       THEN [data EXCEPT !.subscriptions =
                                @ \cup {<<config.sns_topic_arn, email>>}]
                       ELSE data
    /\ UNCHANGED <<cloud, nextApi>>

\* the exit code of a finished run
ExitCode(run) == IF run.outcome \in {"ok", "cancel"} THEN 0 ELSE 1

\* ------------------------------------------------------------ specification
Next ==
    \/ StartDeploy \/ DeployBuckets \/ DeployTable \/ DeployRole \/ DeployTopic
    \/ DeployLambdaLoad \/ DeployLambdaApi \/ DeployLambdaNotify
    \/ DeployS3Trigger \/ DeployStreamTrigger \/ DeployApi \/ DeployWeb
    \/ DeployWrite
    \/ StartDestroy \/ DestroyConfirm \/ DestroyUnlink
    \/ DestroyLambdaLoad \/ DestroyLambdaApi \/ DestroyLambdaNotify
    \/ DestroyApi \/ DestroyTable
    \/ DestroyEmptyUploads \/ DestroyBucketUploads
    \/ DestroyEmptyWeb \/ DestroyBucketWeb
    \/ DestroyRole \/ DestroyTopics
    \/ Interrupt
    \/ Validate

Spec == Init /\ [][Next]_vars

\* ------------------------------------------- a record from an earlier time
\* The same tools, started where infra/deployment.json may hold a record that
\* carries another suffix than the fixed one (written by an earlier revision
\* of deploy.py, or by hand), its resources gone from the account; the account
\* is one that provides LabRole.
LegacySuffix == "a1b2c3"

LegacyRecord ==
    [Config([NoLocals EXCEPT !.suffix = LegacySuffix,
                             !.topic_arn = TopicArn(SNS_TOPIC_NAME)], 0)
        EXCEPT !.suffix = LegacySuffix]

ReuseInit ==
    /\ recFile \in {{}, {LegacyRecord}}
    /\ labRole = TRUE
    /\ buckets = {}
    /\ bucketNotif = {}
    /\ tableUp = FALSE
    /\ roles = {}
    /\ attached = {}
    /\ topics = {}
    /\ functions = {}
    /\ mappings = {}
    /\ apis = {}
    /\ nextApi = 1
    /\ prog = "idle"
    /\ pc = "idle"
    /\ loc = NoLocals
    /\ faults = 0
    /\ hist = <<>>
    /\ data = NoData

ReuseSpec == ReuseInit /\ [][Next]_vars

\* ------------------------------------------------ the tools that only read
\* validate and subscribe, run in any order on an account where a deployment
\* was made (its record kept or lost) and any of its resources may since have
\* been removed outside the tools.
DeployedRecord ==
    Config([NoLocals EXCEPT !.api_id = 1, !.topic_arn = TopicArn(SNS_TOPIC_NAME)], 1)

ReadInit ==
    /\ recFile \in {{}, {DeployedRecord}}
    /\ labRole = TRUE
    /\ buckets \in SUBSET {BucketUploads(DefaultSuffix), BucketWeb(DefaultSuffix)}
    /\ bucketNotif = {}
    /\ tableUp \in BOOLEAN
    /\ roles \in {{}, {IamRoleLambda(DefaultSuffix)}}
    /\ attached = roles
    /\ topics \in {{}, {SNS_TOPIC_NAME}}
    /\ functions \in {{}, {LAMBDA_API_NAME},
                      {LAMBDA_LOAD_NAME, LAMBDA_API_NAME, LAMBDA_NOTIFY_NAME}}
    /\ mappings = {}
    /\ apis \in {{}, {[id |-> 1, name |-> ApiName(DefaultSuffix)]}}
    /\ nextApi = 2
    /\ prog = "idle"
    /\ pc = "idle"
    /\ loc = NoLocals
    /\ faults = 0
    /\ hist = <<>>
    /\ data = NoData

ReadNext == Validate \/ Subscribe

ReadSpec == ReadInit /\ [][ReadNext]_vars

\* ---------------------------------------------------------------- typing
TypeOK ==
    /\ Cardinality(recFile) <= 1
    /\ prog \in {"idle", "deploy", "destroy", "validate"}
    /\ faults \in 0..MaxFaults
    /\ Len(hist) <= MaxRuns


\* ------------------------------------------------ emptying a bucket (destroy)
\* destroy.py:255-259 for one bucket: empty_s3_bucket, then delete_s3_bucket.
\* The bucket holds versions 1..n and delete markers n+1..n+m, numbered in the
\* order the provider lists each kind, so that all_deletes
\* (objects_to_delete + delete_markers) holds entry k at index k - 1.
MaxBatches == 2

BatchSize == 1000
PageSize == 1000

Min(a, b) == IF a < b THEN a ELSE b
Max(a, b) == IF a < b THEN b ELSE a

\* the numbers of versions and of delete markers a bucket is given
Sizes == {k * BatchSize + d : k \in 0..(MaxBatches - 1), d \in {0, 1, BatchSize - 1}}

TheBucket == BucketUploads(DefaultSuffix)

\* what the tools' variables hold while a function is studied by itself
Elsewhere ==
    /\ recFile = {}
    /\ labRole = TRUE
    /\ bucketNotif = {}
    /\ tableUp = TRUE
    /\ roles = {}
    /\ attached = {}
    /\ topics = {SNS_TOPIC_NAME}
    /\ functions = {}
    /\ mappings = {}
    /\ apis = {}
    /\ nextApi = 1
    /\ faults = 0
    /\ hist = <<>>

elsewhere == <<recFile, labRole, bucketNotif, tableUp, roles, attached, topics,
               functions, mappings, apis, nextApi, hist>>

EmptyInit ==
    /\ Elsewhere
    /\ buckets = {TheBucket}
    /\ \E n \in Sizes, m \in Sizes :
          /\ data = [NoData EXCEPT !.entries = 1..(n + m)]
          /\ loc = [n |-> n, m |-> m, objects_to_delete |-> 0, delete_markers |-> 0,
                    i |-> 0, calls |-> <<>>, met |-> {}]
    /\ prog = "empty_s3_bucket"
    /\ pc = "versioning"

\* destroy.py:50-59: put_bucket_versioning inside try / except: pass
SuspendVersioning ==
    /\ prog = "empty_s3_bucket" /\ pc = "versioning"
    /\ \E f \in {"none", "versioning"} :
        /\ (f # "none") => CanFail
        /\ Drawn(f)
        /\ loc' = IF f = "none" THEN loc ELSE Met(loc, "versioning")
    /\ pc' = "list"
    /\ UNCHANGED <<elsewhere, buckets, prog, data>>

\* destroy.py:61-83: one page of list_object_versions; its versions are appended
\* to objects_to_delete, its delete markers to delete_markers. A ClientError
\* leaves the function by its handler (destroy.py:97-101).
ListPage ==
    /\ prog = "empty_s3_bucket" /\ pc = "list"
    /\ \E f \in {"none", "list"} :
        LET leftV == loc.n - loc.objects_to_delete
            leftM == loc.m - loc.delete_markers
            size == Min(PageSize, leftV + leftM)
        IN  /\ (f # "none") => CanFail
            /\ Drawn(f)
            /\ IF f = "list"
               THEN /\ loc' = Met(loc, "list")
                    /\ pc' = "delete_bucket"
               ELSE \E v \in {Max(0, size - leftM), Min(size, leftV)} :
                      /\ loc' = [loc EXCEPT !.objects_to_delete = @ + v,
                                            !.delete_markers = @ + (size - v)]
                      /\ pc' = IF size = leftV + leftM THEN "batch" ELSE "list"
    /\ UNCHANGED <<elsewhere, buckets, prog, data>>

\* mutant of Slice: the slice ends one entry early
Slice_Short(i, len) == (i + 1)..Min(i + BatchSize - 1, len)

\* destroy.py:87: all_deletes[i:i+1000], as the set of the entries' numbers
Slice(i, len) == (i + 1)..Min(i + BatchSize, len)

\* destroy.py:85-92: one turn of `for i in range(0, len(all_deletes), 1000)`:
\* a delete_objects call for the slice. A ClientError leaves the function.
DeleteBatch ==
    /\ prog = "empty_s3_bucket" /\ pc = "batch"
    /\ LET len == loc.objects_to_delete + loc.delete_markers
           batch == Slice(loc.i, len)
       IN  IF loc.i >= len
           THEN /\ pc' = "delete_bucket"
                /\ UNCHANGED <<loc, data, faults>>
           ELSE \E f \in {"none", "delete"} :
                  /\ (f # "none") => CanFail
                  /\ Drawn(f)
                  /\ data' = IF f = "none" /\ batch # {}
                             THEN [data EXCEPT !.entries = @ \ batch] ELSE data
                  /\ loc' = [(IF f = "none" THEN loc ELSE Met(loc, "delete"))
                               EXCEPT !.i = @ + BatchSize,
                                      !.calls = IF batch # {}
                                                THEN Append(@, <<"delete_objects", batch>>)
                                                ELSE @]
                  /\ pc' = IF f = "none" THEN "batch" ELSE "delete_bucket"
    /\ UNCHANGED <<elsewhere, buckets, prog>>

\* destroy.py:104-114 delete_s3_bucket: the provider refuses to delete a bucket
\* that holds an entry (BucketNotEmpty); the error is printed
DeleteEmptied ==
    /\ prog = "empty_s3_bucket" /\ pc = "delete_bucket"
    /\ \E f \in {"none", "hard"} :
        /\ (f # "none") => CanFail
        /\ Drawn(f)
        /\ buckets' = IF f = "none" /\ data.entries = {} THEN {} ELSE buckets
        /\ loc' = [(IF f = "none" THEN loc ELSE Met(loc, "hard"))
                     EXCEPT !.calls = Append(@, <<"delete_bucket", {}>>)]
    /\ pc' = "done"
    /\ UNCHANGED <<elsewhere, prog, data>>

EmptyNext == SuspendVersioning \/ ListPage \/ DeleteBatch \/ DeleteEmptied

EmptySpec == EmptyInit /\ [][EmptyNext]_vars


\* ------------------------------------------- the notification function
\* notify_low_stock/lambda_function.py, invoked with one batch of the table's
\* change stream. A number attribute arrives as the string of a decimal number:
\* [whole, tenths] stands for the string of whole + tenths/10, which is the
\* literal of an integer exactly when tenths = 0.
MaxRecords == 2

LOW_STOCK_THRESHOLD == 50

\* the new image's Count: absent, or a number
Counts ==
    {[has |-> FALSE, whole |-> 0, tenths |-> 0]}
        \cup {[has |-> TRUE, whole |-> w, tenths |-> t] :
                 w \in {10, LOW_STOCK_THRESHOLD - 1, LOW_STOCK_THRESHOLD}, t \in {0}}
        \cup {[has |-> TRUE, whole |-> LOW_STOCK_THRESHOLD - 1, tenths |-> 5]}

StreamRecords ==
    [eventName : {"INSERT", "MODIFY", "REMOVE", "REPLAY"}, Count : Counts]

StreamBatches(n) == UNION {[1..k -> StreamRecords] : k \in 0..n}

\* lambda_function.py:47: int(new_image.get("Count", {}).get("N", 0)) raises
\* ValueError on the string of a number that is not an integer
IntRaises(c) == c.has /\ c.tenths # 0

\* the value int(...) returns: 0 when the attribute is absent
IntOf(c) == IF c.has THEN c.whole ELSE 0

NotifyInit ==
    /\ Elsewhere
    /\ buckets = {}
    /\ data = NoData
    /\ \E event \in StreamBatches(MaxRecords) :
          loc = [event |-> [Records |-> event], i |-> 1, notified_count |-> 0, statusCode |-> 0,
                 met |-> {}]
    /\ prog = "notify_low_stock"
    /\ pc = "loop"

\* lambda_function.py:52
LowStock(count) == count < LOW_STOCK_THRESHOLD

\* lambda_function.py:34-81: one turn of the loop over the records. An
\* exception of sns.publish is printed (66-75); any other exception leaves the
\* loop for the handler's except clause (90-97), which returns statusCode 500.
NotifyRecord ==
    /\ prog = "notify_low_stock" /\ pc = "loop"
    /\ loc.i <= Len(loc.event.Records)
    /\ LET record == loc.event.Records[loc.i]
           upsert == record.eventName \in {"INSERT", "MODIFY"}
       IN  \E f \in {"none", "publish"} :
             LET low == upsert /\ ~IntRaises(record.Count) /\ LowStock(IntOf(record.Count))
                 sent == low /\ f = "none"
             IN  /\ (f # "none") => (CanFail /\ low)
                 /\ Drawn(f)
                 /\ data' = IF sent
                            THEN [data EXCEPT !.published = Append(@, loc.i)]
                            ELSE data
                 /\ IF upsert /\ IntRaises(record.Count)
                    THEN /\ loc' = [Met(loc, "ValueError") EXCEPT !.statusCode = 500]
                         /\ pc' = "done"
                    ELSE /\ loc' = [(IF f = "none" THEN loc ELSE Met(loc, "publish"))
                                      EXCEPT !.i = @ + 1,
                                             !.notified_count = IF sent THEN @ + 1 ELSE @]
                         /\ pc' = "loop"
    /\ UNCHANGED <<elsewhere, buckets, prog>>

\* lambda_function.py:83-88: the loop is over, the handler returns statusCode 200
NotifyReturn ==
    /\ prog = "notify_low_stock" /\ pc = "loop"
    /\ loc.i > Len(loc.event.Records)
    /\ loc' = [loc EXCEPT !.statusCode = 200]
    /\ pc' = "done"
    /\ UNCHANGED <<elsewhere, buckets, prog, data, faults>>

NotifyNext == NotifyRecord \/ NotifyReturn

NotifySpec == NotifyInit /\ [][NotifyNext]_vars


\* ---------------------------------------------- the ingestion function
\* load_inventory/lambda_function.py, invoked with one object-created event of
\* the uploads bucket. A field of a CSV row is absent (csv.DictReader yields
\* None for it) or a text, written as the sequence of its pieces; the text of
\* Count is that of the number whole + tenths/10.
MaxObjects == 2

MaxRows == 2

Field(pieces) == [has |-> TRUE, text |-> pieces]

NoField == [has |-> FALSE, text |-> <<>>]

Number(w, t) == [has |-> TRUE, whole |-> w, tenths |-> t]

NoNumber == [has |-> FALSE, whole |-> 0, tenths |-> 0]

CsvRows ==
    {[Store |-> Field(<<"Berlin">>), Item |-> Field(<<"Widget-001">>), Count |-> Number(100, 0)],
     [Store |-> Field(<<" ", "Berlin">>), Item |-> Field(<<"Widget-001">>), Count |-> Number(30, 0)],
     [Store |-> Field(<<"Berlin">>), Item |-> Field(<<"Widget-002">>), Count |-> Number(10, 0)],
     [Store |-> Field(<<"Berlin">>), Item |-> Field(<<"Widget-003">>), Count |-> Number(12, 5)],
     [Store |-> Field(<<"Berlin">>), Item |-> NoField, Count |-> Number(5, 0)],
     [Store |-> Field(<<"Berlin">>), Item |-> Field(<<"Widget-004">>), Count |-> NoNumber]}

CsvFiles(n) == UNION {[1..k -> CsvRows] : k \in 0..n}

\* the keys of the table: (Store, Item)
KeyOf(it) == <<it.Store, it.Item>>

\* table.put_item: the item replaces the one with its key
PutItem(items, it) == {x \in items : KeyOf(x) # KeyOf(it)} \cup {it}

\* lambda_function.py:55-57: None.strip() raises AttributeError, int(None)
\* TypeError, int of a text that is not an integer ValueError
RowRaises(row) ==
    \/ ~row.Store.has
    \/ ~row.Item.has
    \/ ~row.Count.has
    \/ row.Count.tenths # 0

\* lambda_function.py:61-65
ItemOf(row) ==
    [Store |-> Strip(row.Store.text), Item |-> Strip(row.Item.text),
     Count |-> row.Count.whole]

LoadInit ==
    /\ Elsewhere
    /\ buckets = {BucketUploads(LegacySuffix)}
    /\ data = NoData
    /\ \E n \in 0..MaxObjects :
          loc = [n |-> n, r |-> 1, rows |-> <<>>, j |-> 1, bound |-> FALSE,
                 items_inserted |-> 0, statusCode |-> 0, reported |-> 0,
                 written |-> 0, read |-> <<>>, met |-> {}]
    /\ prog = "load_inventory"
    /\ pc = "records"

\* lambda_function.py:39-51: the next record of the event; its object is
\* downloaded and parsed, and items_inserted starts again from 0. An exception
\* of s3.get_object reaches the handler's except clause (84-89).
LoadObject ==
    /\ prog = "load_inventory" /\ pc = "records"
    /\ loc.r <= loc.n
    /\ \E f \in {"none", "get_object"} :
          /\ (f # "none") => CanFail
          /\ Drawn(f)
          /\ IF f # "none"
             THEN /\ loc' = [Met(loc, f) EXCEPT !.statusCode = 500]
                  /\ pc' = "done"
             ELSE /\ \E csv_content \in CsvFiles(MaxRows) :
                       loc' = [loc EXCEPT !.rows = csv_content, !.j = 1,
                                          !.items_inserted = 0, !.bound = TRUE,
                                          !.read = @ \o csv_content]
                  /\ pc' = "rows"
    /\ UNCHANGED <<elsewhere, buckets, prog, data>>

\* lambda_function.py:53-72: one row; any exception, that of table.put_item
\* included, is printed and the loop goes on
LoadRow ==
    /\ prog = "load_inventory" /\ pc = "rows"
    /\ loc.j <= Len(loc.rows)
    /\ LET row == loc.rows[loc.j]
       IN  \E f \in {"none", "put_item"} :
             LET put == ~RowRaises(row) /\ f = "none"
             IN  /\ (f # "none") => (CanFail /\ ~RowRaises(row))
                 /\ Drawn(f)
                 /\ data' = IF put
                            THEN [data EXCEPT !.items = PutItem(@, ItemOf(row))]
                            ELSE data
                 /\ loc' = [(IF f = "none" THEN loc ELSE Met(loc, f))
                              EXCEPT !.j = @ + 1,
                                     !.items_inserted = IF put THEN @ + 1 ELSE @,
                                     !.written = IF put THEN @ + 1 ELSE @]
    /\ UNCHANGED <<elsewhere, buckets, prog, pc>>

\* lambda_function.py:74: the rows of the object are done
LoadObjectDone ==
    /\ prog = "load_inventory" /\ pc = "rows"
    /\ loc.j > Len(loc.rows)
    /\ loc' = [loc EXCEPT !.r = @ + 1]
    /\ pc' = "records"
    /\ UNCHANGED <<elsewhere, buckets, prog, data, faults>>

\* lambda_function.py:76-82: the return; items_inserted is unbound when the
\* event had no record, and the NameError reaches the except clause (84-89)
LoadReturn ==
    /\ prog = "load_inventory" /\ pc = "records"
    /\ loc.r > loc.n
    /\ loc' = IF loc.bound
              THEN [loc EXCEPT !.statusCode = 200, !.reported = loc.items_inserted]
              ELSE [Met(loc, "NameError") EXCEPT !.statusCode = 500]
    /\ pc' = "done"
    /\ UNCHANGED <<elsewhere, buckets, prog, data, faults>>

LoadNext == LoadObject \/ LoadRow \/ LoadObjectDone \/ LoadReturn

LoadSpec == LoadInit /\ [][LoadNext]_vars


\* ---------------------------------------------------- the API function
\* get_inventory_api/lambda_function.py, invoked with one HTTP request in the
\* gateway's payload format 2.0. A text (rawPath, routeKey, a store name) is
\* the sequence of its pieces; the stage of the API is "prod" (deploy.py:404),
\* so the gateway hands over the paths /prod/items and /prod/items/<store>.
StoreNames == {<<"Berlin">>, <<"Madrid">>}

\* the records the table may hold: three of one store, one of the other
TableItems ==
    {[Store |-> <<"Berlin">>, Item |-> <<i>>, Count |-> 10] :
        i \in {"Widget-001", "Widget-002", "Widget-003"}}
      \cup {[Store |-> <<"Madrid">>, Item |-> <<"Widget-001">>, Count |-> 60]}

\* the records the provider puts in one page of a scan or a query (it ends a
\* page at 1 MB of data)
PageItems == 2

NoParams == [has |-> FALSE, store |-> <<>>]

Params(store) == [has |-> TRUE, store |-> store]

\* the requests the gateway routes to the function
Routed ==
    {[rawPath |-> <<"/", "prod", "/", "items">>,
      routeKey |-> <<"GET", " ", "/", "items">>, pathParameters |-> NoParams]}
      \cup {[rawPath |-> <<"/", "prod", "/", "items", "/">> \o st,
              routeKey |-> <<"GET", " ", "/", "items", "/", "{store}">>,
              pathParameters |-> Params(st)] : st \in StoreNames}

\* requests that reach the function some other way (a route added to the API,
\* an invocation by hand)
Unrouted ==
    {[rawPath |-> p, routeKey |-> <<"$default">>, pathParameters |-> NoParams] :
        p \in {<<"/">>, <<"/", "health">>, <<"/", "prod", "/", "items", "old">>,
                <<"/", "items", "old", "/", "Berlin">>,
                <<"/", "items">>, <<"/", "items", "/", "Berlin">>}}
      \cup {[rawPath |-> <<>>, routeKey |-> <<>>, pathParameters |-> NoParams]}

\* sub in s, on texts
In(sub, s) ==
    \E k \in 0..(Len(s) - Len(sub)) : SubSeq(s, k + 1, k + Len(sub)) = sub

\* path.split("/"): how many parts, and the last of them
PartsCount(path) == Cardinality({k \in 1..Len(path) : path[k] = "/"}) + 1

LastPart(path) ==
    LET slashes == {k \in 1..Len(path) : path[k] = "/"}
        from == IF slashes = {} THEN 0 ELSE CHOOSE k \in slashes : \A h \in slashes : h <= k
    IN  SubSeq(path, from + 1, Len(path))

\* lambda_function.py:99-111: the store the request names, <<>> for None or ""
StoreOf(event) ==
    LET path_params == event.pathParameters
        first == IF path_params.has THEN path_params.store ELSE <<>>
    IN  IF first = <<>> /\ In(<<"/", "items", "/">>, event.rawPath)
                        /\ PartsCount(event.rawPath) >= 3
        THEN LastPart(event.rawPath)
        ELSE first

Response(code, items, count) ==
    [statusCode |-> code, error |-> code # 200, items |-> items, count |-> count]

ApiInit ==
    /\ Elsewhere
    /\ buckets = {}
    /\ \E held \in SUBSET TableItems : data = [NoData EXCEPT !.items = held]
    /\ \E event \in Routed \cup Unrouted :
          loc = [event |-> event, store |-> <<>>, items |-> {}, count |-> 0,
                 left |-> {}, calls |-> 0, response |-> Response(0, {}, 0),
                 met |-> {}]
    /\ prog = "get_inventory_api"
    /\ pc = "route"

\* lambda_function.py:90-128: the handler chooses what to do
ApiRoute ==
    /\ prog = "get_inventory_api" /\ pc = "route"
    /\ LET store == StoreOf(loc.event)
       IN  IF store # <<>>
           THEN /\ loc' = [loc EXCEPT !.store = store]
                /\ pc' = "query"
           ELSE IF In(<<"/", "items">>, loc.event.routeKey)
                     \/ In(<<"/", "items">>, loc.event.rawPath)
           THEN /\ loc' = [loc EXCEPT !.left = data.items]
                /\ pc' = "scan"
           ELSE /\ loc' = [loc EXCEPT !.response = Response(404, {}, 0)]
                /\ pc' = "done"
    /\ UNCHANGED <<elsewhere, buckets, prog, data, faults>>

\* the pages the provider may answer with: PageItems records of those left,
\* or all of them when they are no more
PagesOf(left) ==
    IF Cardinality(left) <= PageItems THEN {left}
    ELSE {page \in SUBSET left : Cardinality(page) = PageItems}

\* lambda_function.py:54-76: one call of table.query, the first page of its
\* result; the LastEvaluatedKey of the answer is not looked at
ApiQuery ==
    /\ prog = "get_inventory_api" /\ pc = "query"
    /\ \E f \in {"none", "query"} :
          /\ (f # "none") => CanFail
          /\ Drawn(f)
          /\ IF f # "none"
             THEN loc' = [Met(loc, f) EXCEPT !.response = Response(500, {}, 0)]
             ELSE \E page \in PagesOf({it \in data.items : it.Store = loc.store}) :
                    loc' = [loc EXCEPT !.items = page, !.count = Cardinality(page),
                                       !.calls = @ + 1,
                                       !.response =
                                           Response(200, page, Cardinality(page))]
    /\ pc' = "done"
    /\ UNCHANGED <<elsewhere, buckets, prog, data>>

\* mutant of ScanLeft: the answer never carries a LastEvaluatedKey
ScanLeft_Nothing(left, page) == {}

\* lambda_function.py:36-37: what the scan still has to return after a page,
\* from the LastEvaluatedKey of the answer on
ScanLeft(left, page) == left \ page

\* lambda_function.py:29-51: one call of table.scan; the loop goes on while
\* the answer carries a LastEvaluatedKey
ApiScan ==
    /\ prog = "get_inventory_api" /\ pc = "scan"
    /\ \E f \in {"none", "scan"} :
          /\ (f # "none") => CanFail
          /\ Drawn(f)
          /\ IF f # "none"
             THEN /\ loc' = [Met(loc, f) EXCEPT !.response = Response(500, {}, 0)]
                  /\ pc' = "done"
             ELSE \E page \in PagesOf(loc.left) :
                    LET items == loc.items \cup page
                        count == loc.count + Cardinality(page)
                        more == ScanLeft(loc.left, page)
                    IN  /\ loc' = [loc EXCEPT !.items = items, !.count = count,
                                              !.left = more, !.calls = @ + 1,
                                              !.response =
                                                  IF more = {}
                                                  THEN Response(200, items, count)
                                                  ELSE @]
                        /\ pc' = IF more = {} THEN "done" ELSE "scan"
    /\ UNCHANGED <<elsewhere, buckets, prog, data>>

ApiNext == ApiRoute \/ ApiQuery \/ ApiScan

ApiSpec == ApiInit /\ [][ApiNext]_vars


\* ------------------------------------------ the stream trigger (deploy)
\* add_stream_trigger_to_lambda, deploy.py:450-489, a call at a time, and what
\* main does after it. data.stream is the LatestStreamArn of the table's
\* description, <<>> when the description has no such key (the provider leaves
\* it out for a table that never had a stream); data.mappings are the
\* event-source mappings of the account.
LatestStream == <<"stream", "Inventory", "2">>

PastStream == <<"stream", "Inventory", "1">>

BATCH_SIZE == 100

Mapping(uuid, stream, fn, batch, start) ==
    [UUID |-> uuid, EventSourceArn |-> stream, FunctionName |-> fn,
     BatchSize |-> batch, StartingPosition |-> start]

\* mappings an earlier run or another hand may have left
OldMappings ==
    {Mapping("m1", LatestStream, LAMBDA_NOTIFY_NAME, BATCH_SIZE, "TRIM_HORIZON"),
     Mapping("m2", LatestStream, LAMBDA_NOTIFY_NAME, 10, "LATEST"),
     Mapping("m3", LatestStream, LAMBDA_LOAD_NAME, BATCH_SIZE, "TRIM_HORIZON"),
     Mapping("m4", PastStream, LAMBDA_NOTIFY_NAME, BATCH_SIZE, "TRIM_HORIZON")}

\* the mappings of a stream to a function (the provider keeps at most one)
Linking(maps, stream, fn) ==
    {m \in maps : m.EventSourceArn = stream /\ m.FunctionName = fn}

TriggerInit ==
    /\ Elsewhere
    /\ buckets = {}
    /\ \E stream \in {<<>>, LatestStream}, maps \in SUBSET OldMappings :
          /\ \A m \in maps : Cardinality(Linking(maps, m.EventSourceArn, m.FunctionName)) = 1
          /\ data = [stream |-> stream, mappings |-> maps, found |-> maps]
    /\ loc = [lambda_name |-> LAMBDA_NOTIFY_NAME, stream_arn |-> <<>>,
              calls |-> <<>>, printed |-> {}, met |-> {}]
    /\ prog = "add_stream_trigger_to_lambda"
    /\ pc = "describe"

TriggerStep(next, l) ==
    /\ loc' = l
    /\ pc' = next
    /\ UNCHANGED <<elsewhere, buckets, prog>>

\* deploy.py:455-460: describe_table and the subscript ["LatestStreamArn"],
\* which raises KeyError when the description has no such key (the test of
\* line 458 is met only by an identifier that is there and empty, which the
\* provider does not answer); an exception here reaches main's handler (721-725)
TriggerDescribe ==
    /\ prog = "add_stream_trigger_to_lambda" /\ pc = "describe"
    /\ \E f \in {"none", "describe"} :
          /\ (f # "none") => CanFail
          /\ Drawn(f)
          /\ IF f # "none" THEN TriggerStep("aborted", Met(loc, "ClientError"))
             ELSE IF data.stream = <<>> THEN TriggerStep("aborted", Met(loc, "KeyError"))
             ELSE TriggerStep("list", [loc EXCEPT !.stream_arn = data.stream])
    /\ UNCHANGED data

\* deploy.py:462-472: the mappings listed for the function and the stream are
\* deleted; a ClientError of the listing or of a delete is passed over
TriggerClear ==
    /\ prog = "add_stream_trigger_to_lambda" /\ pc = "list"
    /\ \E f \in {"none", "list", "delete"} :
          LET existing_mappings == Linking(data.mappings, loc.stream_arn, loc.lambda_name)
              gone == IF f = "none" THEN existing_mappings ELSE {}
          IN  /\ (f # "none") => CanFail
              /\ (f = "delete") => (existing_mappings # {})
              /\ Drawn(f)
              /\ data' = [data EXCEPT !.mappings = @ \ gone]
              /\ TriggerStep("create",
                     [(IF f = "none" THEN loc ELSE Met(loc, f))
                        EXCEPT !.calls = @ \o (IF gone = {} THEN <<>> ELSE <<"delete">>)])

\* deploy.py:474-489: create_event_source_mapping, which the provider refuses
\* with a conflict while the stream is mapped to the function; a ClientError
\* is printed and the function returns
TriggerCreate ==
    /\ prog = "add_stream_trigger_to_lambda" /\ pc = "create"
    /\ \E f \in {"none", "create"} :
          LET conflict == Linking(data.mappings, loc.stream_arn, loc.lambda_name) # {}
              made == f = "none" /\ ~conflict
          IN  /\ (f # "none") => CanFail
              /\ Drawn(f)
              /\ data' = IF made
                         THEN [data EXCEPT !.mappings = @ \cup
                                 {Mapping("new", loc.stream_arn, loc.lambda_name,
                                          BATCH_SIZE, "TRIM_HORIZON")}]
                         ELSE data
              /\ TriggerStep("returned",
                     [(IF f = "none" THEN loc ELSE Met(loc, f))
                        EXCEPT !.calls = IF made THEN Append(@, "create") ELSE @,
                               !.printed = IF made THEN @
                                           ELSE IF conflict THEN @ \cup {"conflict"}
                                           ELSE @ \cup {"error"}])

\* deploy.py:673-676, 721-725: after the step main goes on to create the API,
\* or its handler ends the run
TriggerLeaves ==
    /\ prog = "add_stream_trigger_to_lambda" /\ pc \in {"returned", "aborted"}
    /\ prog' = "deploy"
    /\ pc' = IF pc = "returned" THEN "api" ELSE "exit 1"
    /\ UNCHANGED <<elsewhere, buckets, loc, data, faults>>

TriggerNext == TriggerDescribe \/ TriggerClear \/ TriggerCreate \/ TriggerLeaves

TriggerSpec == TriggerInit /\ [][TriggerNext]_vars


\* ------------------------------------------- creating a function (deploy)
\* create_lambda, deploy.py:226-297, a call at a time. data.exists: the
\* function is there when the creator starts. loc.slept counts the seconds
\* of time.sleep.
POLL_ATTEMPTS == 12

POLL_PAUSE == 5

CODE_PAUSE == 3

\* the State of a function's configuration
FunctionStates == {"Pending", "Active", "Inactive", "Failed"}

LambdaInit ==
    /\ Elsewhere
    /\ buckets = {}
    /\ \E exists \in BOOLEAN : data = [exists |-> exists]
    /\ \E name \in {LAMBDA_LOAD_NAME, LAMBDA_API_NAME, LAMBDA_NOTIFY_NAME} :
          loc = [name |-> name, conflict |-> FALSE, attempt |-> 0, reads |-> 0,
                 pauses |-> 0, slept |-> 0, state |-> "", calls |-> <<>>,
                 tried |-> {}, met |-> {}]
    /\ prog = "create_lambda"
    /\ pc = "create"

LambdaStep(next, l) ==
    /\ loc' = l
    /\ pc' = next
    /\ UNCHANGED <<elsewhere, buckets, prog, data>>

\* deploy.py:238-253, 296-297: create_function; the provider answers a
\* ResourceConflictException for a function that is there
LambdaCreate ==
    /\ prog = "create_lambda" /\ pc = "create"
    /\ \E f \in {"none", "error"} :
          /\ (f # "none") => CanFail
          /\ Drawn(f)
          /\ IF f # "none" THEN LambdaStep("raised", Met(loc, "create_function"))
             ELSE IF data.exists THEN LambdaStep("poll", [loc EXCEPT !.conflict = TRUE])
             ELSE LambdaStep("returned", [loc EXCEPT !.calls = <<"create_function">>])

\* mutant of PollsOn: the loop does not leave on Active
PollsOn_WhateverState(state, attempt) == attempt < POLL_ATTEMPTS

\* deploy.py:258, 262-263: the loop takes another turn
PollsOn(state, attempt) == state # "Active" /\ attempt < POLL_ATTEMPTS

\* deploy.py:258-267: one turn of the loop; get_function raises (answer
\* "raised") or tells the state, and every turn but one that reads Active
\* sleeps
LambdaPoll ==
    /\ prog = "create_lambda" /\ pc = "poll"
    /\ \E answer \in FunctionStates \cup {"raised"} :
          LET attempt == loc.attempt + 1
              pause == answer # "Active"
          IN  LambdaStep(IF PollsOn(answer, attempt) THEN "poll" ELSE "update_code",
                 [loc EXCEPT !.attempt = attempt,
                             !.reads = @ + 1,
                             !.state = answer,
                             !.pauses = IF pause THEN @ + 1 ELSE @,
                             !.slept = IF pause THEN @ + POLL_PAUSE ELSE @])
    /\ UNCHANGED faults

\* mutant of AfterUpdate: a conflict of an update is raised like any error
AfterUpdate_ConflictRaises(f, next) == IF f = "none" THEN next ELSE "raised"

\* deploy.py:288-294: where the creator goes after an update call: on, past
\* the except clause when the error names ResourceConflictException, out
\* with any other ClientError
AfterUpdate(f, next) ==
    CASE f = "none" -> next
      [] f = "conflict" -> "get"
      [] f = "error" -> "raised"

\* deploy.py:270-278, 288-292: update_function_code and the pause after it; a
\* conflict is printed, any other ClientError raised
LambdaUpdateCode ==
    /\ prog = "create_lambda" /\ pc = "update_code"
    /\ \E f \in {"none", "conflict", "error"} :
          LET l == [loc EXCEPT !.tried = @ \cup {"update_function_code"}]
          IN  /\ (f # "none") => CanFail
              /\ Drawn(f)
              /\ LambdaStep(AfterUpdate(f, "update_config"),
                     CASE f = "none" ->
                            [l EXCEPT !.calls = Append(@, "update_function_code"),
                                      !.slept = @ + CODE_PAUSE]
                       [] f = "conflict" -> Met(l, "conflict")
                       [] f = "error" -> Met(l, "update_function_code"))

\* deploy.py:280-292: update_function_configuration
LambdaUpdateConfig ==
    /\ prog = "create_lambda" /\ pc = "update_config"
    /\ \E f \in {"none", "conflict", "error"} :
          LET l == [loc EXCEPT !.tried = @ \cup {"update_function_configuration"}]
          IN  /\ (f # "none") => CanFail
              /\ Drawn(f)
              /\ LambdaStep(AfterUpdate(f, "get"),
                     CASE f = "none" ->
                            [l EXCEPT !.calls = Append(@, "update_function_configuration")]
                       [] f = "conflict" -> Met(l, "conflict")
                       [] f = "error" -> Met(l, "update_function_configuration"))

\* deploy.py:294-295: get_function for the ARN the creator returns
LambdaGet ==
    /\ prog = "create_lambda" /\ pc = "get"
    /\ \E f \in {"none", "error"} :
          /\ (f # "none") => CanFail
          /\ Drawn(f)
          /\ IF f = "none" THEN LambdaStep("returned", loc)
             ELSE LambdaStep("raised", Met(loc, "get_function"))

LambdaNext ==
    LambdaCreate \/ LambdaPoll \/ LambdaUpdateCode \/ LambdaUpdateConfig \/ LambdaGet

\* the process runs on: no statement of the creator waits for anything but
\* the provider's answer and the end of a sleep
LambdaSpec == LambdaInit /\ [][LambdaNext]_vars /\ WF_vars(LambdaNext)


\* --------------------------------------------- creating the table (deploy)
\* create_dynamodb_table, deploy.py:109-162, a call at a time. data.table is
\* the table Inventory as the provider has it: whether it is there, its
\* TableStatus, and the view type of its stream ("" when the stream is not
\* enabled).
WAITER_ATTEMPTS == 25

ViewTypes == {"NEW_AND_OLD_IMAGES", "NEW_IMAGE", "KEYS_ONLY"}

Table(status, view) == [exists |-> TRUE, TableStatus |-> status, StreamViewType |-> view]

NoTable == [exists |-> FALSE, TableStatus |-> "", StreamViewType |-> ""]

TableInit ==
    /\ Elsewhere
    /\ buckets = {}
    /\ \E t \in {NoTable} \cup {Table(st, v) : st \in {"ACTIVE", "CREATING", "UPDATING"},
                                                v \in ViewTypes \cup {""}} :
          data = [table |-> t, found |-> t]
    /\ loc = [StreamEnabled |-> FALSE, attempts |-> 0, calls |-> <<>>, met |-> {}]
    /\ prog = "create_dynamodb_table"
    /\ pc = "create_table"

TableStep(next, l) ==
    /\ loc' = l
    /\ pc' = next
    /\ UNCHANGED <<elsewhere, buckets, prog>>

\* deploy.py:113-130, 138-140, 161-162: create_table, which the provider
\* refuses with ResourceInUseException for a table that is there
TableCreate ==
    /\ prog = "create_dynamodb_table" /\ pc = "create_table"
    /\ \E f \in {"none", "error"} :
          /\ (f # "none") => CanFail
          /\ Drawn(f)
          /\ IF f # "none"
             THEN /\ TableStep("raised", Met(loc, "create_table"))
                  /\ UNCHANGED data
             ELSE IF data.table.exists
             THEN /\ TableStep("describe", loc)
                  /\ UNCHANGED data
             ELSE /\ TableStep("wait", [loc EXCEPT !.calls = <<"create_table">>])
                  /\ data' = [data EXCEPT !.table = Table("CREATING", "NEW_AND_OLD_IMAGES")]

\* deploy.py:132-137, 154-156: one attempt of the table_exists waiter, which
\* describes the table and is content with the status ACTIVE; the table's
\* pending change may have ended by then. After its last attempt the waiter
\* raises WaiterError, which the except clause of line 138 does not catch.
TableWait ==
    /\ prog = "create_dynamodb_table" /\ pc \in {"wait", "wait_update"}
    /\ \E ended \in BOOLEAN :
          LET table == IF ended THEN [data.table EXCEPT !.TableStatus = "ACTIVE"]
                       ELSE data.table
              attempts == loc.attempts + 1
          IN  /\ data' = [data EXCEPT !.table = table]
              /\ IF table.TableStatus = "ACTIVE"
                 THEN TableStep(IF pc = "wait" THEN "returned" ELSE "describe_again",
                                [loc EXCEPT !.attempts = 0])
                 ELSE IF attempts = WAITER_ATTEMPTS
                 THEN TableStep("raised", Met([loc EXCEPT !.attempts = attempts], "WaiterError"))
                 ELSE TableStep(pc, [loc EXCEPT !.attempts = attempts])
    /\ UNCHANGED faults

\* deploy.py:141-145, 160: describe_table and the test of StreamEnabled; with
\* the stream enabled the creator returns. A ClientError raised inside the
\* except clause leaves the function.
TableDescribe ==
    /\ prog = "create_dynamodb_table" /\ pc = "describe"
    /\ \E f \in {"none", "error"} :
          LET enabled == data.table.StreamViewType # ""
          IN  /\ (f # "none") => CanFail
              /\ Drawn(f)
              /\ IF f # "none" THEN TableStep("raised", Met(loc, "describe_table"))
                 ELSE TableStep(IF enabled THEN "returned" ELSE "update_table",
                                [loc EXCEPT !.StreamEnabled = enabled])
    /\ UNCHANGED data

\* deploy.py:146-153: update_table enables the stream; the provider refuses
\* to update a table that is not ACTIVE, and the ClientError leaves the function
TableUpdate ==
    /\ prog = "create_dynamodb_table" /\ pc = "update_table"
    /\ \E f \in {"none", "error"} :
          /\ (f # "none") => CanFail
          /\ Drawn(f)
          /\ IF f # "none" \/ data.table.TableStatus # "ACTIVE"
             THEN /\ TableStep("raised", Met(loc, "update_table"))
                  /\ UNCHANGED data
             ELSE /\ TableStep("wait_update", [loc EXCEPT !.calls = Append(@, "update_table")])
                  /\ data' = [data EXCEPT !.table = Table("UPDATING", "NEW_AND_OLD_IMAGES")]

\* deploy.py:157-160: describe_table once more, and the return
TableDescribeAgain ==
    /\ prog = "create_dynamodb_table" /\ pc = "describe_again"
    /\ \E f \in {"none", "error"} :
          /\ (f # "none") => CanFail
          /\ Drawn(f)
          /\ IF f # "none" THEN TableStep("raised", Met(loc, "describe_table"))
             ELSE TableStep("returned", loc)
    /\ UNCHANGED data

TableNext ==
    TableCreate \/ TableWait \/ TableDescribe \/ TableUpdate \/ TableDescribeAgain

TableSpec == TableInit /\ [][TableNext]_vars


\* ------------------------------------------------------- the topic step
\* destroy.py:194-214, delete_all_low_stock_topics on an account that holds
\* topics with their subscriptions. A subscription is confirmed or still
\* awaits its confirmation; the listing gives the latter the literal
\* PendingConfirmation in place of an identifier (validate.py:135).
OtherTopic == <<"orders">>

TopicNames == {SNS_TOPIC_NAME, ForeignTopic, OtherTopic}

\* the topics one call of list_topics returns: the code asks for one page
TopicPage == 2

Subscription(topic, endpoint, pending) ==
    [topic |-> topic, endpoint |-> endpoint, pending |-> pending]

Subscriptions ==
    {Subscription(SNS_TOPIC_NAME, "a@b", FALSE), Subscription(SNS_TOPIC_NAME, "c@d", TRUE),
     Subscription(ForeignTopic, "e@f", FALSE)}

SubscriptionArn(sub) ==
    IF sub.pending THEN <<"PendingConfirmation">> ELSE TopicArn(sub.topic) \o <<sub.endpoint>>

\* destroy.py:200: "low-stock" in arn
LowStockTopic(name) == IsInfix(<<"low-stock">>, TopicArn(name))

TopicsInit ==
    /\ Elsewhere
    /\ buckets = {}
    /\ \E ts \in SUBSET TopicNames, ss \in SUBSET Subscriptions :
          /\ \A sub \in ss : sub.topic \in ts
          /\ data = [topics |-> ts, subscriptions |-> ss, found |-> ts]
    /\ loc = [todo |-> {}, calls |-> <<>>, orphaned |-> {}, met |-> {}]
    /\ prog = "delete_all_low_stock_topics"
    /\ pc = "list_topics"

TopicsStep(next, l) ==
    /\ loc' = l
    /\ pc' = next
    /\ UNCHANGED <<elsewhere, buckets, prog>>

\* destroy.py:197-200: one call of list_topics, outside any try; the topics
\* of its answer whose ARN holds "low-stock" are the ones to visit
TopicsList ==
    /\ prog = "delete_all_low_stock_topics" /\ pc = "list_topics"
    /\ \E f \in {"none", "list_topics"} :
        /\ (f # "none") => CanFail
        /\ Drawn(f)
        /\ UNCHANGED data
        /\ IF f = "list_topics"
           THEN TopicsStep("raised", Met(loc, "list_topics"))
           ELSE \E page \in SUBSET data.topics :
                  /\ Cardinality(page) = Min(TopicPage, Cardinality(data.topics))
                  /\ TopicsStep("topic", [loc EXCEPT !.todo = {t \in page : LowStockTopic(t)}])

\* the provider's unsubscribe: what is no identifier of a subscription is
\* refused
UnsubscribeRefuses(sub) == sub.pending

\* destroy.py:201-214: one matching topic of the listing. Its subscriptions
\* are listed and unsubscribed one by one, a refusal of unsubscribe is passed
\* over (208-209); then the topic is deleted, and what was still subscribed
\* goes with it. A refusal of the listing or of the deletion is printed.
TopicsDelete ==
    /\ prog = "delete_all_low_stock_topics" /\ pc = "topic"
    /\ \E t \in loc.todo, f \in {"none", "list_subscriptions_by_topic", "unsubscribe", "delete_topic"} :
        LET subs == {sub \in data.subscriptions : sub.topic = t}
            able == {sub \in subs : ~UnsubscribeRefuses(sub)}
            l == [loc EXCEPT !.todo = @ \ {t}]
        IN  /\ (f # "none") => CanFail
            /\ (f = "unsubscribe") => (able # {})
            /\ Drawn(f)
            /\ IF f = "list_subscriptions_by_topic"
               THEN /\ data' = data
                    /\ TopicsStep("topic", Met(l, f))
               ELSE \E refused \in SUBSET able :
                      LET gone == able \ refused
                          left == subs \ gone
                          unsubscribed == [l EXCEPT !.calls = @ \o <<<<"unsubscribe", t, gone>>>>]
                      IN  /\ Cardinality(refused) = (IF f = "unsubscribe" THEN 1 ELSE 0)
                          /\ IF f = "delete_topic"
                             THEN /\ data' = [data EXCEPT !.subscriptions = @ \ gone]
                                  /\ TopicsStep("topic", Met(unsubscribed, f))
                             ELSE /\ data' = [data EXCEPT !.subscriptions = @ \ subs,
                                                          !.topics = @ \ {t}]
                                  /\ TopicsStep("topic",
                                        [(IF f = "none" THEN unsubscribed ELSE Met(unsubscribed, f))
                                           EXCEPT !.calls = @ \o <<<<"delete_topic", t, left>>>>,
                                                  !.orphaned = @ \cup left])

\* destroy.py:198: the listing is through
TopicsReturn ==
    /\ prog = "delete_all_low_stock_topics" /\ pc = "topic"
    /\ loc.todo = {}
    /\ TopicsStep("returned", loc)
    /\ UNCHANGED <<data, faults>>

TopicsNext == TopicsList \/ TopicsDelete \/ TopicsReturn

TopicsSpec == TopicsInit /\ [][TopicsNext]_vars


\* ------------------------------------------------------------------ claims
Runs == 1..Len(hist)
RecBefore(i) == IF i = 1 THEN {} ELSE hist[i - 1].rec
DeployOk(i) == hist[i].tool = "deploy" /\ hist[i].outcome = "ok"
Last == hist[Len(hist)]
Range(seq) == {seq[i] : i \in 1..Len(seq)}

\* a step of destroy took a resource away from the provider
SomethingDeleted ==
    \/ functions' # functions \/ mappings' # mappings \/ apis' # apis
    \/ tableUp' # tableUp \/ buckets' # buckets \/ roles' # roles
    \/ topics' # topics

\* C1: in a confirmed destroy run no step deletes a cloud resource while the
\* record file still exists (the file is gone before the first deletion).
C1_RecordGoneBeforeDeletes ==
    [][(prog = "destroy" /\ SomethingDeleted) => recFile = {}]_vars

\* C2: right after deploy has written the record, every identifier stored in it
\* names a resource that exists (so one this run created or found), the
\* iam_role field included.
C2_RecordNamesExisting ==
    (prog = "idle" /\ hist # <<>> /\ DeployOk(Len(hist))) =>
        \A r \in recFile :
            /\ r.bucket_uploads \in buckets
            /\ r.bucket_web \in buckets
            /\ r.table_name = TABLE_NAME /\ tableUp
            /\ {r.lambda_load, r.lambda_api, r.lambda_notify} \subseteq functions
            /\ r.api_id \in {a.id : a \in apis}
            /\ r.sns_topic_arn \in {TopicArn(t) : t \in topics}
            /\ r.iam_role \in roles

SameNames(r, q) ==
    /\ r.suffix = q.suffix
    /\ r.bucket_uploads = q.bucket_uploads
    /\ r.bucket_web = q.bucket_web
    /\ r.table_name = q.table_name
    /\ r.lambda_load = q.lambda_load
    /\ r.lambda_api = q.lambda_api
    /\ r.lambda_notify = q.lambda_notify
    /\ r.web_url = q.web_url
    /\ r.sns_topic_arn = q.sns_topic_arn
    /\ r.iam_role = q.iam_role

SameApi(r, q) == r.api_id = q.api_id /\ r.api_endpoint = q.api_endpoint

TwoDeploys(i) == i + 1 \in Runs /\ DeployOk(i) /\ DeployOk(i + 1)

\* C3 (as claimed): of two successful deploy runs in succession, the second
\* writes a record with the same identifiers as the first, api_id and
\* api_endpoint included.
C3_SameRecordTwice ==
    \A i \in Runs : TwoDeploys(i) =>
        \A r \in hist[i].rec, q \in hist[i + 1].rec : SameNames(r, q) /\ SameApi(r, q)

\* C3 (amended): of two successful deploy runs in succession, the second writes
\* a record whose suffix, bucket names, table name, function names, web_url,
\* sns_topic_arn and iam_role equal those the first wrote.
C3_SameNamesTwice ==
    \A i \in Runs : TwoDeploys(i) =>
        /\ hist[i].rec # {} /\ hist[i + 1].rec # {}
        /\ \A r \in hist[i].rec, q \in hist[i + 1].rec : SameNames(r, q)

C3_Witness == \E i \in Runs : TwoDeploys(i)

\* C4: a deploy run that starts right after a successful one, so that every
\* resource already exists, and meets no error other than 'already exists'
\* answers does not abort.
C4_ExistsNeverAborts ==
    \A i \in Runs :
        (/\ i > 1 /\ DeployOk(i - 1)
         /\ hist[i].tool = "deploy"
         /\ hist[i].met \subseteq {"exists", "conflict"})
        => hist[i].outcome # "abort"

DeploySteps ==
    <<"buckets", "table", "role", "topic", "lambda_load", "lambda_api",
      "lambda_notify", "s3_trigger", "stream_trigger", "api", "web">>

\* C5: deploy leaves the record file as it found it until its last step: while
\* it runs the file is the one of the start, a run that did not complete leaves
\* that file, and a run that wrote had every creation step return before.
C5_RecordWrittenLast ==
    /\ prog = "deploy" => recFile = RecAtStart
    /\ \A i \in Runs : hist[i].tool = "deploy" =>
          IF hist[i].outcome = "ok"
          THEN hist[i].steps = DeploySteps
          ELSE hist[i].rec = RecBefore(i)

C5_Witness ==
    \E i \in Runs :
        /\ hist[i].tool = "deploy" /\ hist[i].outcome = "abort"
        /\ hist[i].rec # {}
        /\ \E j \in Runs : DeployOk(j)

\* C6: a validate run that follows a completed confirmed destroy run finds no
\* record and exits with code 1.
C6_ValidateAfterDestroy ==
    \A i \in Runs :
        (/\ i + 1 \in Runs
         /\ hist[i].tool = "destroy" /\ hist[i].outcome = "ok"
         /\ hist[i + 1].tool = "validate")
        => (hist[i + 1].outcome = "norecord" /\ ExitCode(hist[i + 1]) = 1)

DeleteSteps ==
    {"x_lambda_load", "x_lambda_api", "x_lambda_notify", "x_api", "x_table",
     "x_empty_uploads", "x_bucket_uploads", "x_empty_web", "x_bucket_web",
     "x_role", "x_topics"}

\* C7: a confirmed destroy run that ends by itself has attempted every delete
\* step, whatever failed inside a step.
C7_EveryDeleteAttempted ==
    \A i \in Runs :
        (hist[i].tool = "destroy" /\ hist[i].outcome \in {"ok", "abort"}) =>
            DeleteSteps \subseteq (Range(hist[i].steps) \cup {hist[i].at})

\* C8: after a successful deploy and then a confirmed destroy in which no call
\* failed for a reason of the provider's, nothing the deploy created remains
\* (without LabRole the deploy created the execution role and attached the
\* managed policy to it).
C8_NothingRemains ==
    (/\ prog = "idle" /\ Len(hist) >= 2
     /\ DeployOk(Len(hist) - 1)
     /\ Last.tool = "destroy" /\ Last.outcome = "ok"
     /\ Last.met \cap {"hard", "waiter", "unlink"} = {})
    => \A r \in hist[Len(hist) - 1].rec :
          /\ {r.bucket_uploads, r.bucket_web} \cap buckets = {}
          /\ ~tableUp
          /\ {r.lambda_load, r.lambda_api, r.lambda_notify} \cap (functions \cup mappings) = {}
          /\ r.api_id \notin {a.id : a \in apis}
          /\ r.sns_topic_arn \notin {TopicArn(t) : t \in topics}
          /\ ~labRole => IamRoleLambda(r.suffix) \notin (roles \cup attached)

\* C9: no deploy run in which a step met a provider error that is neither a
\* conflict nor a refusal to make the web bucket public completes and writes
\* the record.
C9_HardErrorAborts ==
    \A i \in Runs : DeployOk(i) => "hard" \notin hist[i].met

Named(prefix, names) == {n \in names : n[1] = prefix}

\* C10: when every run so far was a successful deploy, there is exactly one
\* uploads bucket, one web bucket, the table, and one topic whose name is the
\* fixed topic name.
C10_NoDuplicates ==
    (prog = "idle" /\ hist # <<>> /\ \A i \in Runs : DeployOk(i)) =>
        /\ Cardinality(Named("inventory-uploads", buckets)) = 1
        /\ Cardinality(Named("inventory-web", buckets)) = 1
        /\ tableUp
        /\ Cardinality({t \in topics : IsInfix(SNS_TOPIC_NAME, TopicArn(t))}) = 1

C10_Witness ==
    /\ prog = "idle" /\ Len(hist) >= 2
    /\ \A i \in Runs : DeployOk(i)

\* the positions of deploy's main, in the order of its statements
DeployOrder == DeploySteps \o <<"write">>

IsPrefix(s, t) == Len(s) <= Len(t) /\ s = SubSeq(t, 1, Len(s))

\* C11: a deploy run takes its steps in the fixed order buckets, table, role,
\* topic, load function, api function, notify function, object-store trigger,
\* stream trigger, API gateway, web content, record write, each after the
\* previous one returned; and a step that consumes the role ARN, the topic ARN,
\* a function or the API endpoint runs when the step producing it has returned.
C11_DeployOrder ==
    /\ prog = "deploy" =>
          /\ IsPrefix(loc.steps \o <<pc>>, DeployOrder)
          /\ pc \in {"lambda_load", "lambda_api", "lambda_notify"} =>
                ("role" \in Range(loc.steps) /\ loc.role_arn # <<>>)
          /\ pc = "lambda_notify" =>
                ("topic" \in Range(loc.steps) /\ loc.topic_arn # <<>>)
          /\ pc = "s3_trigger" => LAMBDA_LOAD_NAME \in functions
          /\ pc = "stream_trigger" => LAMBDA_NOTIFY_NAME \in functions
          /\ pc = "api" => LAMBDA_API_NAME \in functions
          /\ pc \in {"web", "write"} =>
                ("api" \in Range(loc.steps) /\ loc.api_id \in {a.id : a \in apis})
    /\ \A i \in Runs : hist[i].tool = "deploy" =>
          /\ IsPrefix(hist[i].steps, DeployOrder)
          /\ hist[i].at = DeployOrder[Len(hist[i].steps) + 1]

C11_Witness ==
    /\ prog = "deploy" /\ pc = "write" /\ loc.steps = DeploySteps
    /\ \E i \in Runs : DeployOk(i)

\* the positions of destroy's main after the record was loaded
DestroyOrder ==
    <<"confirm", "unlink", "x_lambda_load", "x_lambda_api", "x_lambda_notify",
      "x_api", "x_table", "x_empty_uploads", "x_bucket_uploads", "x_empty_web",
      "x_bucket_web", "x_role", "x_topics">>

Position ==
    [step \in Range(DestroyOrder) |->
        CHOOSE k \in 1..Len(DestroyOrder) : DestroyOrder[k] = step]

\* within one step, the calls that come before the deletion of the resource
Before(call) ==
    call \in {"delete_event_source_mapping", "delete_table", "delete_role_policy",
              "list_object_versions"}

\* call c is not later than call d in the claimed order
InOrder(c, d) ==
    \/ Position[c[1]] < Position[d[1]]
    \/ c[1] = d[1] /\ (Before(c[2]) \/ ~Before(d[2]))

\* C12: a confirmed destroy run issues its deletions in the order: the three
\* functions (each one's event-source mappings before the function), the API,
\* the table (the next deletion comes only when the table is gone), each
\* bucket (emptied before deleted), the role (inline policies first), the topics.
C12_DestroyOrder ==
    /\ prog = "destroy" =>
          /\ IsPrefix(loc.steps \o <<pc>>, DestroyOrder)
          /\ \A i \in 1..(Len(loc.calls) - 1) :
                /\ InOrder(loc.calls[i], loc.calls[i + 1])
                /\ ~InOrder(loc.calls[i + 1], loc.calls[i])
          /\ \A i \in 1..Len(loc.calls) :
                /\ loc.calls[i][1] \in Range(loc.steps)
                /\ loc.calls[i][2] = "wait_table_not_exists" => ~tableUp
    /\ \A i \in Runs :
          (hist[i].tool = "destroy" /\ hist[i].outcome \in {"ok", "abort", "interrupt"}) =>
              /\ IsPrefix(hist[i].steps, DestroyOrder)
              /\ hist[i].at = DestroyOrder[Len(hist[i].steps) + 1]

C12_Witness ==
    /\ prog = "destroy" /\ pc = "x_topics"
    /\ \E i, j, k \in 1..Len(loc.calls) :
          /\ loc.calls[i] = <<"x_lambda_notify", "delete_event_source_mapping">>
          /\ loc.calls[j] = <<"x_empty_web", "delete_objects">>
          /\ loc.calls[k] = <<"x_role", "delete_role_policy">>
    /\ <<"x_table", "wait_table_not_exists">> \in Range(loc.calls)

\* C13: destroy deletes nothing unless the operator's answer, trimmed and
\* lower-cased, is the confirmation word: the run passes the prompt only on
\* such an answer, no step before or at the prompt changes the record file or
\* a cloud resource, and a run given any other answer ends at the prompt with
\* the file and the cloud as they were and exit code 0.
C13_OnlyOnConfirmation ==
    /\ [](prog = "destroy" =>
            /\ pc # "confirm" => "confirm" \in Range(loc.steps)
            /\ pc = "unlink" => Lower(Strip(loc.answer)) = ConfirmWord)
    /\ [](\A i \in Runs : (hist[i].tool = "destroy" /\ hist[i].outcome = "cancel") =>
            /\ hist[i].steps = <<>>
            /\ hist[i].rec = RecBefore(i)
            /\ ExitCode(hist[i]) = 0)
    /\ [][(prog = "destroy" /\ pc = "confirm") =>
            /\ UNCHANGED <<recFile, cloud>>
            /\ \/ /\ prog' = "idle"
                  /\ hist'[Len(hist')].outcome = "interrupt"
               \/ /\ prog' = "idle"
                  /\ hist'[Len(hist')].outcome = "cancel"
                  /\ Lower(Strip(loc'.answer)) # ConfirmWord
               \/ /\ pc' = "unlink"
                  /\ Lower(Strip(loc'.answer)) = ConfirmWord]_vars

\* a run was cancelled by the word without its accent, and the next one is
\* past the prompt on the word in capitals with blanks around it
C13_Witness ==
    /\ \E i \in Runs :
          /\ hist[i].tool = "destroy" /\ hist[i].outcome = "cancel"
          /\ hist[i].rec # {}
    /\ prog = "destroy" /\ pc = "unlink" /\ loc.answer = <<" ", "S", "Í", "\n">>

Ceil(a, b) == (a + b - 1) \div b

RECURSIVE Sum(_, _)
Sum(f, k) == IF k = 0 THEN 0 ELSE f[k] + Sum(f, k - 1)

\* the delete_objects calls issued so far
Batches == SelectSeq(loc.calls, LAMBDA c : c[1] = "delete_objects")

\* C14: when no call fails, empty_s3_bucket on a bucket of N versions and M
\* delete markers has issued ceil((N+M)/1000) delete_objects calls, each of at
\* most 1000 entries, that together hold every version and every marker once,
\* and the bucket is then deleted; failing or not, every delete_objects call
\* comes before the delete_bucket call.
C14_BatchedDeletes ==
    prog = "empty_s3_bucket" =>
        /\ \A k \in 1..Len(loc.calls) :
              loc.calls[k][1] = "delete_bucket" => (k = Len(loc.calls) /\ pc = "done")
        /\ (pc = "done" /\ loc.met = {}) =>
              /\ Len(loc.calls) = Len(Batches) + 1
              /\ Len(Batches) = Ceil(loc.n + loc.m, BatchSize)
              /\ \A k \in 1..Len(Batches) :
                    /\ Cardinality(Batches[k][2]) >= 1
                    /\ Cardinality(Batches[k][2]) <= BatchSize
              /\ UNION {Batches[k][2] : k \in 1..Len(Batches)} = 1..(loc.n + loc.m)
              /\ Sum([k \in 1..Len(Batches) |-> Cardinality(Batches[k][2])],
                     Len(Batches)) = loc.n + loc.m
              /\ data.entries = {}
              /\ buckets = {}

\* 1001 versions and 999 delete markers: two full batches, the second one
\* holding entries of both kinds
C14_Witness ==
    /\ prog = "empty_s3_bucket" /\ pc = "done" /\ loc.met = {}
    /\ loc.n = 1001 /\ loc.m = 999
    /\ Len(Batches) = 2

\* C15: a deploy run that finds a record at its start names its resources by
\* the suffix stored in that record and writes that suffix back: the uploads
\* bucket, the web bucket and the role it creates, and the record it writes,
\* carry the suffix found, in every run of a sequence of such runs.
C15_SuffixKept ==
    /\ (prog = "deploy" /\ loc.existing_config # {}) =>
          \A r \in loc.existing_config :
              /\ loc.suffix = r.suffix
              /\ "buckets" \in Range(loc.steps) =>
                    {BucketUploads(r.suffix), BucketWeb(r.suffix)} \subseteq buckets
              /\ ("role" \in Range(loc.steps) /\ loc.role_arn # RoleArn(LabRoleName)) =>
                    /\ loc.role_arn = RoleArn(IamRoleLambda(r.suffix))
                    /\ IamRoleLambda(r.suffix) \in roles
    /\ \A i \in Runs : (DeployOk(i) /\ hist[i].found # {}) =>
          \A r \in hist[i].found, q \in hist[i].rec :
              /\ q.suffix = r.suffix
              /\ q.bucket_uploads = BucketUploads(r.suffix)
              /\ q.bucket_web = BucketWeb(r.suffix)
              /\ q.iam_role = IamRoleLambda(r.suffix)
    /\ \A i \in Runs : (i > 1 /\ hist[i].tool = "deploy") =>
          hist[i].found = hist[i - 1].rec

\* two successful deploy runs in succession, the first of which found the
\* record with the other suffix
C15_Witness ==
    /\ TwoDeploys(1)
    /\ hist[1].found = {LegacyRecord}
    /\ \A q \in hist[2].rec : q.suffix = LegacySuffix

\* the names a record holds are the ones the given suffix determines
NamedBy(q, suffix) ==
    /\ q.suffix = suffix
    /\ q.bucket_uploads = <<"inventory-uploads", suffix>>
    /\ q.bucket_web = <<"inventory-web", suffix>>
    /\ q.iam_role = <<"lambda-inventory-role", suffix>>
    /\ q.table_name = "Inventory"
    /\ q.lambda_load = "load_inventory"
    /\ q.lambda_api = "get_inventory_api"
    /\ q.lambda_notify = "notify_low_stock"
    /\ q.sns_topic_arn = <<"arn:aws:sns", "low-stock", "inventory-main">>

\* C16: the names deploy derives are a function of the suffix alone: the
\* buckets and the role carry the suffix, the table, the three functions and
\* the topic have fixed names; a run that finds no record uses the suffix
\* 'inventory-main', so that two such runs derive the same names; and the
\* resources a run has created bear these names.
C16_NamesFromSuffix ==
    /\ prog = "deploy" =>
          /\ loc.existing_config = {} => loc.suffix = "inventory-main"
          /\ "buckets" \in Range(loc.steps) =>
                {<<"inventory-uploads", loc.suffix>>, <<"inventory-web", loc.suffix>>}
                    \subseteq buckets
          /\ "topic" \in Range(loc.steps) =>
                /\ loc.topic_arn = <<"arn:aws:sns", "low-stock", "inventory-main">>
                /\ <<"low-stock", "inventory-main">> \in topics
          /\ "lambda_notify" \in Range(loc.steps) =>
                {"load_inventory", "get_inventory_api", "notify_low_stock"}
                    \subseteq functions
    /\ \A i \in Runs : DeployOk(i) =>
          \A q \in hist[i].rec :
              /\ NamedBy(q, IF hist[i].found = {} THEN "inventory-main"
                            ELSE (CHOOSE r \in hist[i].found : TRUE).suffix)
    /\ \A i, j \in Runs :
          (DeployOk(i) /\ DeployOk(j) /\ hist[i].found = {} /\ hist[j].found = {}) =>
              \A r \in hist[i].rec, q \in hist[j].rec : SameNames(r, q)

\* two successful runs that found no record
C16_Witness ==
    \E i, j \in Runs :
        /\ i < j /\ DeployOk(i) /\ DeployOk(j)
        /\ hist[i].found = {} /\ hist[j].found = {}
        /\ recFile # {}

\* C17: validate only reads: a step of a validate run leaves the record file
\* and every cloud resource as they were, whatever it finds missing; and a
\* subscribe run, which does add a subscription to the topic, leaves the
\* record file as it was.
C17_ReadOnly ==
    [][(hist' # hist /\ hist'[Len(hist')].tool \in {"validate", "subscribe"}) =>
          /\ recFile' = recFile
          /\ hist'[Len(hist')].rec = recFile
          /\ hist'[Len(hist')].tool = "validate" =>
                (cloud' = cloud /\ data' = data /\ nextApi' = nextApi)]_vars

\* a validate run reported missing resources with a record present, and a
\* subscribe run added a subscription
C17_Witness ==
    /\ recFile # {}
    /\ \E i \in Runs :
          /\ hist[i].tool = "validate" /\ hist[i].outcome = "ok"
          /\ {"bucket_web", "probe"} \subseteq hist[i].met
    /\ \E i \in Runs : hist[i].tool = "subscribe" /\ hist[i].outcome = "ok"
    /\ data.subscriptions # {}

\* C18: a validate run exits with code 1 when it found no record file and with
\* code 0 whenever it found one, whatever the checks and the probe met.
C18_ExitCodeByRecord ==
    \A i \in Runs : hist[i].tool = "validate" =>
        ExitCode(hist[i]) = (IF hist[i].rec = {} THEN 1 ELSE 0)

\* the stream record has a new Count below the threshold (a record without the
\* attribute is taken as the function takes it, with Count 0)
Qualifies(record) ==
    /\ record.eventName \in {"INSERT", "MODIFY"}
    /\ IF record.Count.has
       THEN record.Count.whole < LOW_STOCK_THRESHOLD
       ELSE 0 < LOW_STOCK_THRESHOLD

\* how many times x occurs in the sequence
Occurrences(seq, x) == Cardinality({k \in 1..Len(seq) : seq[k] = x})

\* C19: when the function has handled a batch, and no publish call was
\* refused by the provider, it has published one message for each INSERT or
\* MODIFY record whose new Count is below 50 and none for any other record, so
\* that the messages number as many as the qualifying records.
C19_OneMessagePerLowStock ==
    (prog = "notify_low_stock" /\ pc = "done" /\ "publish" \notin loc.met) =>
        /\ \A k \in 1..Len(loc.event.Records) :
              Occurrences(data.published, k) =
                  (IF Qualifies(loc.event.Records[k]) THEN 1 ELSE 0)
        /\ Len(data.published) =
              Cardinality({k \in 1..Len(loc.event.Records) :
                             Qualifies(loc.event.Records[k])})

\* the row has Store, Item and an integer Count
WellFormed(row) ==
    row.Store.has /\ row.Item.has /\ row.Count.has /\ row.Count.tenths = 0

\* the rows of the event's objects that are well formed
GoodRows == {k \in 1..Len(loc.read) : WellFormed(loc.read[k])}

\* C20: when the function has handled an object-created event, and the
\* provider refused no call, the table holds a record under the (Store, Item)
\* of every well-formed row of the event's objects and under no other key,
\* the malformed rows having been skipped, and the function reports as
\* items_inserted the number of rows it wrote while handling the event.
C20_RowsWrittenAndCounted ==
    (prog = "load_inventory" /\ pc = "done" /\ loc.n >= 1 /\ loc.met = {}) =>
        /\ {KeyOf(it) : it \in data.items} =
              {<<Strip(loc.read[k].Store.text), Strip(loc.read[k].Item.text)>> :
                 k \in GoodRows}
        /\ loc.written = Cardinality(GoodRows)
        /\ loc.statusCode = 200
        /\ loc.reported = loc.written

\* the path of the request, after the stage: /items, or /items/<store>
AfterStage(path) ==
    IF Len(path) >= 2 /\ SubSeq(path, 1, 2) = <<"/", "prod">>
    THEN SubSeq(path, 3, Len(path))
    ELSE path

IsCollection(path) == AfterStage(path) = <<"/", "items">>

IsSingleStore(path) ==
    LET p == AfterStage(path)
    IN  /\ Len(p) = 4
        /\ SubSeq(p, 1, 3) = <<"/", "items", "/">>
        /\ p[4] # "/"

Answered == prog = "get_inventory_api" /\ pc = "done"

\* C21: a request for /items/<store> that the table answered is returned only
\* records of that store, and a count that is the number of the table's
\* records of that store, however many pages the query has.
C21_StoreCountIsTrue ==
    (Answered /\ IsSingleStore(loc.event.rawPath) /\ loc.met = {}) =>
        LET store == <<AfterStage(loc.event.rawPath)[4]>>
        IN  /\ loc.response.statusCode = 200
            /\ \A it \in loc.response.items : it.Store = store
            /\ loc.response.count =
                  Cardinality({it \in data.items : it.Store = store})

\* C22: a request whose path is neither /items nor /items/<store>, if no call
\* of the table failed, is answered with status 404 and an error body, and
\* with no inventory data.
C22_UnroutedIs404 ==
    (/\ Answered
     /\ ~IsCollection(loc.event.rawPath)
     /\ ~IsSingleStore(loc.event.rawPath)
     /\ loc.met = {}) =>
        /\ loc.response.statusCode = 404
        /\ loc.response.error
        /\ loc.response.items = {}

\* C23: a request for /items that names no store, if no call of the table
\* failed, is answered with status 200, with every record of the table,
\* whatever the number of pages of the scan, and with their number as count.
C23_AllRecords ==
    (/\ Answered
     /\ IsCollection(loc.event.rawPath)
     /\ ~loc.event.pathParameters.has
     /\ loc.met = {}) =>
        /\ loc.response.statusCode = 200
        /\ loc.response.items = data.items
        /\ loc.response.count = Cardinality(data.items)

\* a request for /items was answered from a table of more than one page
C23_Witness ==
    /\ Answered
    /\ IsCollection(loc.event.rawPath)
    /\ Cardinality(data.items) > PageItems
    /\ loc.calls >= 2
    /\ loc.response.statusCode = 200

\* the stream-trigger step is over
TriggerOver == prog = "deploy" /\ pc \in {"api", "exit 1"} /\ "calls" \in DOMAIN loc

\* C24: when the table's description has no stream identifier, and
\* describe_table answered, the stream-trigger step deletes and creates no
\* mapping and returns, so that deploy goes on to the API.
C24_NoStreamSkips ==
    (TriggerOver /\ data.stream = <<>> /\ "ClientError" \notin loc.met) =>
        /\ pc = "api"
        /\ data.mappings = data.found
        /\ loc.calls = <<>>

\* C27: when the table has a stream and the stream-trigger step has returned,
\* one mapping links the stream to the notification function, the one the
\* step created, with batch size 100 and starting at the oldest record, and
\* every mapping that linked them before was deleted before it was created.
C27_OneFreshMapping ==
    (TriggerOver /\ pc = "api" /\ data.stream # <<>>) =>
        LET linking == Linking(data.mappings, data.stream, LAMBDA_NOTIFY_NAME)
        IN  /\ Cardinality(linking) = 1
            /\ \A m \in linking :
                  /\ m \notin data.found
                  /\ m.BatchSize = 100
                  /\ m.StartingPosition = "TRIM_HORIZON"
            /\ Linking(data.found, data.stream, LAMBDA_NOTIFY_NAME) # {} =>
                  loc.calls = <<"delete", "create">>

\* C25: a run in which a wait for the table (to become active, in deploy; to
\* be gone, in destroy) used up its attempts went on: it did not end in the
\* handler of main.
C25_WaitsGiveUpQuietly ==
    \A i \in Runs : "waiter" \in hist[i].met => hist[i].outcome # "abort"

LambdaOver == prog = "create_lambda" /\ pc \in {"returned", "raised"}

\* C26: after a conflict of the creation, create_lambda reads the function's
\* state at most 12 times, pausing 5 seconds after every read but one that
\* told Active, and reads no more once a read told Active; it never leaves
\* without having tried to update the code, and it updates the configuration
\* only after the code update succeeded; and it always terminates.
C26_BoundedPollThenUpdate ==
    /\ [](prog = "create_lambda" =>
            /\ loc.reads <= 12
            /\ loc.pauses \in {loc.reads, loc.reads - 1}
            /\ (loc.pauses < loc.reads => loc.state = "Active")
            /\ (pc \in {"create", "poll"} => loc.slept = 5 * loc.pauses)
            /\ (pc = "update_code" /\ loc.state # "Active" => loc.reads = 12)
            /\ ("update_function_configuration" \in loc.tried =>
                    loc.calls[1] = "update_function_code")
            /\ (LambdaOver /\ loc.conflict => "update_function_code" \in loc.tried))
    /\ [][(prog = "create_lambda" /\ loc.state = "Active") =>
            loc'.reads = loc.reads]_vars
    /\ <>LambdaOver

\* the creation was refused, no read told Active, and the creator updated
\* the code and the configuration all the same
C26_Witness ==
    /\ prog = "create_lambda" /\ pc = "returned"
    /\ loc.conflict
    /\ loc.reads = 12
    /\ loc.state = "raised"
    /\ loc.calls = <<"update_function_code", "update_function_configuration">>

\* C28: when create_api_gateway has returned, one API has the name
\* inventory-api-<suffix>, the one it created: those that had the name before
\* are gone.
C28_OneApiOfTheName ==
    (prog = "deploy" /\ pc = "web") =>
        {a \in apis : a.name = ApiName(loc.suffix)} =
            {[id |-> loc.api_id, name |-> ApiName(loc.suffix)]}

\* C29: when a deploy run has just completed and written its record, the
\* notification configuration of the uploads bucket is the one entry that
\* invokes the load function.
C29_OneNotificationEntry ==
    (prog = "idle" /\ hist # <<>> /\ DeployOk(Len(hist))) =>
        bucketNotif = {LAMBDA_LOAD_NAME}

\* C30: when create_dynamodb_table has returned, the table is there with its
\* stream enabled for new and old images; a table that was there with its
\* stream disabled had it enabled by the creator, which waited for the update
\* to end.
C30_StreamWithBothImages ==
    (prog = "create_dynamodb_table" /\ pc = "returned") =>
        /\ data.table.exists
        /\ data.table.StreamViewType = "NEW_AND_OLD_IMAGES"
        /\ (data.found.exists /\ data.found.StreamViewType = "" =>
               loc.calls = <<"update_table">> /\ data.table.TableStatus = "ACTIVE")

\* C31: a deploy run in which the web bucket could not be made public (the
\* public-access block could not be relaxed, or the policy was rejected) has
\* completed and written the record, and what upload_web_content returned to
\* main, kept as web_url, is not what it returns after a publication.
C31_PrivateSiteIsTold ==
    \A i \in Runs :
        (hist[i].tool = "deploy" /\ "public" \in hist[i].met) =>
            /\ hist[i].outcome = "ok"
            /\ \A r \in hist[i].rec : r.web_url # WebUrl(r.suffix)

\* C32: while the role LabRole exists, the role step of deploy creates no role
\* and attaches no policy, and what it returns is the identifier of LabRole.
C32_LabRolePreferred ==
    [][(prog = "deploy" /\ pc = "role" /\ labRole) =>
          /\ roles' = roles
          /\ attached' = attached
          /\ (pc' = "topic" => loc'.role_arn = RoleArn(LabRoleName))]_vars

\* C33: when an update of an existing function (of its code or of its
\* configuration) met a conflict and the provider refused nothing else,
\* create_lambda has returned; when an update met any other error,
\* create_lambda has raised it.
C33_UpdateConflictTolerated ==
    LambdaOver =>
        /\ (loc.met = {"conflict"} => pc = "returned")
        /\ (loc.met \cap {"update_function_code", "update_function_configuration"} # {} =>
               pc = "raised")

\* the code was updated, the update of the configuration met a conflict, and
\* the creator returned
C33_Witness ==
    /\ prog = "create_lambda" /\ pc = "returned"
    /\ loc.met = {"conflict"}
    /\ loc.calls = <<"update_function_code">>
    /\ "update_function_configuration" \in loc.tried

\* C35: whenever no tool is running and a record file exists, the api_id
\* stored in it is the identifier of an API that exists.
C35_RecordedApiExists ==
    (prog = "idle" /\ recFile # {}) =>
        \A r \in recFile : r.api_id \in {a.id : a \in apis}

\* C36: when a confirmed destroy run went through with a delete step refused
\* for a reason of the provider's, the destroy run that follows it finds the
\* record and can delete again.
C36_LaterDestroyRetries ==
    \A i \in Runs :
        (/\ i + 1 \in Runs
         /\ hist[i].tool = "destroy" /\ hist[i].outcome = "ok"
         /\ "hard" \in hist[i].met
         /\ hist[i + 1].tool = "destroy")
        => hist[i + 1].outcome # "norecord"

\* C37: the only topic a step of destroy deletes is the one stored as
\* sns_topic_arn in the record the run loaded.
C37_OnlyRecordedTopic ==
    [][(prog = "destroy" /\ pc = "x_topics") =>
          \A t \in topics \ topics' : TopicArn(t) = Cfg.sns_topic_arn]_vars

\* C38: when the function is over with a batch in which publish calls were
\* refused, it returns statusCode 200, only the refused records among the
\* qualifying ones went without a message (each refusal costs one message
\* and no more), and notified_count counts the messages published.
C38_FailedPublishIsolated ==
    (prog = "notify_low_stock" /\ pc = "done" /\ "publish" \in loc.met) =>
        /\ loc.statusCode = 200
        /\ \A k \in Range(data.published) : Qualifies(loc.event.Records[k])
        /\ Cardinality({k \in 1..Len(loc.event.Records) :
                          /\ Qualifies(loc.event.Records[k])
                          /\ k \notin Range(data.published)}) = faults
        /\ loc.notified_count = Len(data.published)

\* C34: when the topic step has returned and the provider refused no call of
\* its own accord, no topic of the account whose name follows the convention
\* is left, and no topic was deleted while a subscription of it had not been
\* unsubscribed.
C34_TopicsUnsubscribedAndDeleted ==
    (prog = "delete_all_low_stock_topics" /\ pc = "returned" /\ loc.met = {}) =>
        /\ \A t \in data.found : LowStockTopic(t) => t \notin data.topics
        /\ loc.orphaned = {}

====
